---- MODULE Spec2Model ----
(***************************************************************************)
(* Model of the retrieval, fusion and rerank pipeline of                   *)
(* src/src/agent/services/RagService.js, of the provider gateways          *)
(* VoyageAIService.js and JinaRerankService.js it calls, and of the        *)
(* handlers of controllers/RagController.js that call it.                  *)
(*                                                                         *)
(* Scores are JavaScript numbers in the source.  They are modelled as      *)
(* exact rationals [n |-> numerator, d |-> denominator] in lowest terms,   *)
(* so 1/(k+rank+1) and its sums are computed, not approximated.            *)
(* Texts (title, description, query) are sequences of one-character        *)
(* strings, so that join and trim are computed as the source computes      *)
(* them.                                                                   *)
(***************************************************************************)
EXTENDS Integers, Sequences, FiniteSets, TLC

VARIABLES
    \* a call of mergeWithRRF: its arguments, its result, its position
    listA, listB, kConst, merged, mpc,
    \* the RagService instance: this.useRerank, this.useRerankImage, whether
    \* this.srvJinaRerank has a rerank function, whether this.srvStore is set
    useRerank, useRerankImage, srvJinaRerank, srvStore,
    \* a call of applyRerank: its arguments [query, chunks, k, queryType,
    \* hasUserQuestion], its position, the per-candidate document being built
    \* for the multimodal reranker, the result list the provider returned,
    \* and its return value
    rq, rpc, fetch, results, reranked,
    \* the calls made so far on srvVoyage.rerank, srvJinaRerank.rerank and
    \* srvStore.readFromUrl
    voyageCalls, jinaCalls, fetchCalls,
    \* this.searchIndexName
    searchIndexName,
    \* a call of askHybrid: its arguments, its position, the state of the
    \* getEmbedding and retrieveByFullText promises, the awaited results,
    \* the calls on srvLLM.invoke, the error it rejected with and the value
    \* it resolved to
    question, askK, apc, embedding, ft, fullTextDocs, vectorDocs,
    llmCalls, askError, response,
    \* the ask method the request calls and the options of askImage
    entry, options,
    \* the calls in flight on the provider gateways (VoyageAIService and
    \* JinaRerankService): per call its method, its input, its position,
    \* options.retried, the provider requests it sent, the responses it got
    \* and how it settled
    gw,
    \* srvLLM.call of the one OllamaService instance, the value LLM_CALL
    \* configured it with, and the HTTP requests the controller is handling
    llmCall, envCall, req,
    \* the HTTP request a handler of RagController is answering
    http,
    \* the search indexes of the collection and a run of SetupService
    indexes, setup,
    \* a document of the collection and the insert trigger working on it
    stored, trig,
    \* the films of the collection and the FilmService.delete calls on them
    films, del

rrfVars == <<listA, listB, kConst, merged, mpc>>
configVars == <<useRerank, useRerankImage, srvJinaRerank, srvStore>>
rerankVars == <<rq, rpc, fetch, results, reranked, voyageCalls, jinaCalls, fetchCalls>>
askVars == <<searchIndexName, question, askK, apc, embedding, ft, fullTextDocs,
             vectorDocs, llmCalls, askError, response>>
extVars == <<entry, options, gw, llmCall, envCall, req>>
sysVars == <<http, indexes, setup, stored, trig, films, del>>
vars == <<listA, listB, kConst, merged, mpc,
          useRerank, useRerankImage, srvJinaRerank, srvStore,
          rq, rpc, fetch, results, reranked, voyageCalls, jinaCalls, fetchCalls,
          searchIndexName, question, askK, apc, embedding, ft, fullTextDocs,
          vectorDocs, llmCalls, askError, response,
          entry, options, gw, llmCall, envCall, req,
          http, indexes, setup, stored, trig, films, del>>

----------------------------------------------------------------------------
(* Bounds of the model *)

\* longest input list handed to mergeWithRRF
MaxLen == 2

\* longest result list a rerank provider answers with
MaxResults == 2

\* default RRF constant
RRF_K == 60

----------------------------------------------------------------------------
(* Rational arithmetic standing for JavaScript number arithmetic *)

RECURSIVE Gcd(_, _)
Gcd(a, b) == IF b = 0 THEN a ELSE Gcd(b, a % b)

Lcm(a, b) == (a \div Gcd(a, b)) * b

Rat(n, d) == LET g == Gcd(n, d) IN [n |-> n \div g, d |-> d \div g]

Zero == [n |-> 0, d |-> 1]

RatAdd(a, b) ==
    LET l == Lcm(a.d, b.d)
    IN  Rat(a.n * (l \div a.d) + b.n * (l \div b.d), l)

\* a < b
RatLess(a, b) ==
    LET l == Lcm(a.d, b.d)
    IN  a.n * (l \div a.d) < b.n * (l \div b.d)

----------------------------------------------------------------------------
(* Documents *)

\* document identities; NoId is a document whose _id is missing
Ids == {1, 2, 3}
NoId == 0

NoImage == "none"

\* this.searchIndexName when no search index is configured (null)
NoIndex == "null"

\* a field read from an object that has no such field
Undefined == "undefined"

\* askHybrid has not resolved
NoResponse == [answer |-> <<>>, contextChunks |-> <<>>]

\* no ask request in progress
AskIdle ==
    /\ searchIndexName = NoIndex
    /\ question = <<>>
    /\ askK = 0
    /\ apc = "idle"
    /\ embedding = "idle"
    /\ ft = "idle"
    /\ fullTextDocs = <<>>
    /\ vectorDocs = <<>>
    /\ llmCalls = <<>>
    /\ askError = "none"
    /\ response = NoResponse

\* the gateway calls that may be in flight together
Calls == {"a", "b"}

\* the HTTP requests the controller may be handling together
Reqs == {"r1", "r2"}

NoInput == [type |-> "none"]

Unsettled == [kind |-> "none"]

\* a gateway call that has not been made
NotCalled ==
    [method |-> "none", input |-> NoInput, stage |-> "idle", retried |-> FALSE,
     requests |-> <<>>, responses |-> <<>>, result |-> Unsettled]

\* options.question of askImage when the caller passes none
NoOptions == [given |-> FALSE, text |-> <<>>]

\* an HTTP request that has not arrived
NoRequest == [call |-> Undefined, valid |-> TRUE, pc |-> "idle", generated |-> FALSE]

\* no gateway call, no controller request, no ask method chosen
ExtIdle ==
    /\ entry = "none"
    /\ options = NoOptions
    /\ gw = [c \in Calls |-> NotCalled]
    /\ llmCall = TRUE
    /\ envCall = TRUE
    /\ req = [r \in Reqs |-> NoRequest]

\* an HTTP request that has not reached a handler of the ask routes
NoHttp ==
    [pc |-> "idle", question |-> Undefined, k |-> Undefined, image |-> FALSE,
     call |-> Undefined, status |-> 0, body |-> NoResponse]

\* SetupService.run has not been called
NoSetup ==
    [pc |-> "idle", indexType |-> "both", existingIndexes |-> [array |-> TRUE, names |-> {}],
     runs |-> 0, error |-> "none"]

\* an embedding field that is missing, null or []
NoVector == "none"

\* a document without embeddings, description or cover image
NoDocument ==
    [description |-> FALSE, coverImage |-> FALSE,
     embedding |-> [text |-> NoVector, image |-> NoVector]]

\* const updatedDoc = { embedding: {} }
NoEmbeddings == [text |-> NoVector, image |-> NoVector]

\* the insert trigger has not been called
NoTrigger ==
    [pc |-> "idle", fullDocument |-> NoDocument, storeService |-> FALSE,
     updatedDoc |-> NoEmbeddings]

\* the callers of FilmService.delete
Deleters == {"d1", "d2"}

\* FilmService.delete has not been called
NoDelete == [pc |-> "idle", id |-> 0, doc |-> 0, deletedCount |-> 0, returned |-> Undefined]

\* no HTTP request on the ask routes, no setup run, no trigger, no delete
SysIdle ==
    /\ http = NoHttp
    /\ indexes = {}
    /\ setup = NoSetup
    /\ stored = NoDocument
    /\ trig = NoTrigger
    /\ films = {}
    /\ del = [d \in Deleters |-> NoDelete]

\* the score a vector search reports for its i-th result (1-indexed)
VecScore(i) == Rat(10 - i, 10)
\* the score a full-text search reports for its i-th result (1-indexed)
LexScore(i) == Rat(6 - i, 1)

Doc(id, title, description, coverImage, score) ==
    [_id |-> id, title |-> title, description |-> description,
     coverImage |-> coverImage, score |-> score]

\* inputs of mergeWithRRF: a document may carry a different title in the two
\* lists (the searches read the collection at different moments)
RRFDocs ==
    { Doc(i, t, <<"s">>, "a.png", Zero) : i \in Ids, t \in {<<"D">>, <<"E">>} }
        \cup { Doc(NoId, <<"D">>, <<"s">>, "a.png", Zero) }

SeqsUpTo(S, n) == UNION { [1..m -> S] : m \in 0..n }

WithVecScores(s) == [i \in 1..Len(s) |-> [s[i] EXCEPT !.score = VecScore(i)]]
WithLexScores(s) == [i \in 1..Len(s) |-> [s[i] EXCEPT !.score = LexScore(i)]]

----------------------------------------------------------------------------
(* RagService.mergeWithRRF *)

\* position of the byId entry of id, 0 when the Map has no such key
IndexOfId(byId, id) ==
    IF \E i \in 1..Len(byId) : byId[i]._id = id
    THEN CHOOSE i \in 1..Len(byId) : byId[i]._id = id
    ELSE 0

\* add(doc, rank) with the contribution taken at the 1-indexed rank plus one
RRFAddRankShifted(st, doc, rank, k) ==
    LET id == doc._id IN
    IF id = NoId THEN st
    ELSE
      LET rrf == Rat(1, k + rank + 2)
          sc  == RatAdd(IF id \in DOMAIN st.scores THEN st.scores[id] ELSE Zero, rrf)
          scores2 == [j \in (DOMAIN st.scores) \cup {id} |->
                        IF j = id THEN sc ELSE st.scores[j]]
          byId1 == IF IndexOfId(st.byId, id) = 0
                   THEN Append(st.byId, [doc EXCEPT !.score = Zero])
                   ELSE st.byId
          at == IndexOfId(byId1, id)
      IN  [scores |-> scores2,
           byId   |-> [byId1 EXCEPT ![at].score = scores2[id]]]

\* add(doc, rank) with byId.set(id, ...) done on every occurrence: the last
\* occurrence's representation wins
RRFAddKeepLast(st, doc, rank, k) ==
    LET id == doc._id IN
    IF id = NoId THEN st
    ELSE
      LET rrf == Rat(1, k + rank + 1)
          sc  == RatAdd(IF id \in DOMAIN st.scores THEN st.scores[id] ELSE Zero, rrf)
          scores2 == [j \in (DOMAIN st.scores) \cup {id} |->
                        IF j = id THEN sc ELSE st.scores[j]]
          byId1 == IF IndexOfId(st.byId, id) = 0
                   THEN Append(st.byId, [doc EXCEPT !.score = Zero])
                   ELSE [st.byId EXCEPT ![IndexOfId(st.byId, id)] = doc]
          at == IndexOfId(byId1, id)
      IN  [scores |-> scores2,
           byId   |-> [byId1 EXCEPT ![at].score = scores2[id]]]

\* the closure add(doc, rank); st = [scores, byId], byId in Map insertion order
RRFAdd(st, doc, rank, k) ==
    LET id == doc._id IN
    IF id = NoId THEN st
    ELSE
      LET rrf == Rat(1, k + rank + 1)
          sc  == RatAdd(IF id \in DOMAIN st.scores THEN st.scores[id] ELSE Zero, rrf)
          scores2 == [j \in (DOMAIN st.scores) \cup {id} |->
                        IF j = id THEN sc ELSE st.scores[j]]
          byId1 == IF IndexOfId(st.byId, id) = 0
                   THEN Append(st.byId, [doc EXCEPT !.score = Zero])
                   ELSE st.byId
          at == IndexOfId(byId1, id)
      IN  [scores |-> scores2,
           byId   |-> [byId1 EXCEPT ![at].score = scores2[id]]]

\* list.forEach((doc, i) => add(doc, i)), from element 'from' (1-indexed) on
RECURSIVE RRFForEach(_, _, _, _)
RRFForEach(st, list, from, k) ==
    IF from > Len(list) THEN st
    ELSE RRFForEach(RRFAdd(st, list[from], from - 1, k), list, from + 1, k)

\* the comparator (a, b) => (b.score ?? 0) - (a.score ?? 0) is negative,
\* i.e. a sorts before b
RRFBefore(a, b) == RatLess(b.score, a.score)

\* an unstable sort: x goes before the elements it ties with
RECURSIVE SortInsertUnstable(_, _)
SortInsertUnstable(sorted, x) ==
    IF sorted = <<>> THEN <<x>>
    ELSE IF ~RatLess(x.score, Head(sorted).score) THEN <<x>> \o sorted
    ELSE <<Head(sorted)>> \o SortInsertUnstable(Tail(sorted), x)

\* Array.prototype.sort is stable: x goes after every element it does not
\* sort before
RECURSIVE SortInsert(_, _)
SortInsert(sorted, x) ==
    IF sorted = <<>> THEN <<x>>
    ELSE IF RRFBefore(x, Head(sorted)) THEN <<x>> \o sorted
    ELSE <<Head(sorted)>> \o SortInsert(Tail(sorted), x)

RECURSIVE StableSort(_)
StableSort(s) ==
    IF s = <<>> THEN <<>>
    ELSE SortInsert(StableSort(SubSeq(s, 1, Len(s) - 1)), s[Len(s)])

mergeWithRRF(a, b, k) ==
    LET st0 == [scores |-> <<>>, byId |-> <<>>]
        st1 == RRFForEach(st0, a, 1, k)
        st2 == RRFForEach(st1, b, 1, k)
    IN  StableSort(st2.byId)

\* The objects of a call of mergeWithRRF, to follow which object a write
\* lands on: heap is the sequence of the objects, the elements of listA and
\* listB first, and byId maps an id to the position of its object.

\* position of the byId entry of id on the heap, 0 when the Map has no such key
RefOfId(byId, id) ==
    IF \E i \in 1..Len(byId) : byId[i].id = id
    THEN byId[CHOOSE i \in 1..Len(byId) : byId[i].id = id].ref
    ELSE 0

\* add(doc, rank) with byId.set(id, doc): the Map holds the element of the
\* argument list itself
RRFAddInPlace(st, ref, rank, k) ==
    LET doc == st.heap[ref]
        id == doc._id
    IN
    IF id = NoId THEN st
    ELSE
      LET rrf == Rat(1, k + rank + 1)
          sc  == RatAdd(IF id \in DOMAIN st.scores THEN st.scores[id] ELSE Zero, rrf)
          scores2 == [j \in (DOMAIN st.scores) \cup {id} |->
                        IF j = id THEN sc ELSE st.scores[j]]
          has == RefOfId(st.byId, id) # 0
          byId1 == IF has THEN st.byId
                   ELSE Append(st.byId, [id |-> id, ref |-> ref])
          heap1 == IF has THEN st.heap ELSE [st.heap EXCEPT ![ref].score = Zero]
      IN  [scores |-> scores2, byId |-> byId1,
           heap |-> [heap1 EXCEPT ![RefOfId(byId1, id)].score = scores2[id]]]

\* the closure add(doc, rank) on the heap: byId.set(id, { ...doc, score: 0 })
\* stores a new object, and byId.get(id).score = ... writes to that object
RRFAddOnHeap(st, ref, rank, k) ==
    LET doc == st.heap[ref]
        id == doc._id
    IN
    IF id = NoId THEN st
    ELSE
      LET rrf == Rat(1, k + rank + 1)
          sc  == RatAdd(IF id \in DOMAIN st.scores THEN st.scores[id] ELSE Zero, rrf)
          scores2 == [j \in (DOMAIN st.scores) \cup {id} |->
                        IF j = id THEN sc ELSE st.scores[j]]
          has == RefOfId(st.byId, id) # 0
          heap1 == IF has THEN st.heap
                   ELSE Append(st.heap, [doc EXCEPT !.score = Zero])
          byId1 == IF has THEN st.byId
                   ELSE Append(st.byId, [id |-> id, ref |-> Len(heap1)])
      IN  [scores |-> scores2, byId |-> byId1,
           heap |-> [heap1 EXCEPT ![RefOfId(byId1, id)].score = scores2[id]]]

\* list.forEach((doc, i) => add(doc, i)) for the list whose elements are at
\* the heap positions base + 1 .. base + n, from element 'from' on
RECURSIVE RRFForEachOnHeap(_, _, _, _, _)
RRFForEachOnHeap(st, base, n, from, k) ==
    IF from > n THEN st
    ELSE RRFForEachOnHeap(RRFAddOnHeap(st, base + from, from - 1, k),
                          base, n, from + 1, k)

\* listA and listB as the caller of mergeWithRRF(a, b, k) finds them after
\* the call
ArgumentsAfterMerge(a, b, k) ==
    LET st0 == [scores |-> <<>>, byId |-> <<>>, heap |-> a \o b]
        st1 == RRFForEachOnHeap(st0, 0, Len(a), 1, k)
        st2 == RRFForEachOnHeap(st1, Len(a), Len(b), 1, k)
    IN  [listA |-> SubSeq(st2.heap, 1, Len(a)),
         listB |-> SubSeq(st2.heap, Len(a) + 1, Len(a) + Len(b))]

----------------------------------------------------------------------------
(* Texts *)

\* parts.filter(Boolean): the empty string is falsy
FilterBoolean(parts) == SelectSeq(parts, LAMBDA t : t # <<>>)

\* parts.join(' ')
RECURSIVE JoinSpace(_)
JoinSpace(parts) ==
    IF parts = <<>> THEN <<>>
    ELSE IF Len(parts) = 1 THEN parts[1]
    ELSE parts[1] \o <<" ">> \o JoinSpace(Tail(parts))

RECURSIVE TrimStart(_)
TrimStart(t) == IF t # <<>> /\ Head(t) = " " THEN TrimStart(Tail(t)) ELSE t

RECURSIVE TrimEnd(_)
TrimEnd(t) ==
    IF t # <<>> /\ t[Len(t)] = " " THEN TrimEnd(SubSeq(t, 1, Len(t) - 1)) ELSE t

\* String.prototype.trim
Trim(t) == TrimEnd(TrimStart(t))

\* [c.title, c.description].filter(Boolean).join(' ').trim() || ' '
DocText(c) ==
    LET t == Trim(JoinSpace(FilterBoolean(<<c.title, c.description>>)))
    IN  IF t = <<>> THEN <<" ">> ELSE t

----------------------------------------------------------------------------
(* Candidates handed to applyRerank *)

\* the collection: one document per id, among them one without title,
\* description and cover image, and one with a blank title
Catalog(id) ==
    CASE id = 1 -> Doc(1, <<"D">>, <<"s">>, "a.png", Zero)
      [] id = 2 -> Doc(2, <<>>, <<>>, NoImage, Zero)
      [] OTHER  -> Doc(id, <<" ">>, <<"s">>, "b.jpg", Zero)

\* result lists of a search: distinct documents of the collection
InjectiveSeqs(S) ==
    { s \in SeqsUpTo(S, Cardinality(S)) :
        \A i, j \in 1..Len(s) : i # j => s[i] # s[j] }

CandidateLists ==
    { WithVecScores([i \in 1..Len(s) |-> Catalog(s[i])]) : s \in InjectiveSeqs(Ids) }

Queries == { <<"q">>, <<"w">> }

QueryTypes == { "text", "image", "hybrid" }

Min(a, b) == IF a < b THEN a ELSE b

NoCall == [query |-> <<>>, chunks |-> <<>>, k |-> 0,
           queryType |-> "text", hasUserQuestion |-> FALSE]

----------------------------------------------------------------------------
(* Rerank providers: what srvVoyage.rerank and srvJinaRerank.rerank return *)

\* the providers answer sorted by relevance, descending: the j-th result
\* (1-indexed) carries 0.9, 0.5, 1/3, ...
RelevanceScore(j) == IF j = 1 THEN Rat(9, 10) ELSE Rat(1, j)

\* 0-indexed positions a provider may name, one of them past the end of
\* every candidate list
ResultIndexes == 0..Cardinality(Ids)

\* any indexes, repeated or out of range, in any number up to MaxResults
GatewayResults ==
    { [j \in 1..Len(ix) |-> [index |-> ix[j], relevance_score |-> RelevanceScore(j)]] :
        ix \in SeqsUpTo(ResultIndexes, MaxResults) }

\* outcomes of srvStore.readFromUrl
FetchOutcomes == { "bytes", "null", "empty", "throws" }

----------------------------------------------------------------------------
(* RagService.applyRerank *)

\* results.map with the j-th result applied to the j-th candidate
ApplyResultsByPosition(chunks, res) ==
    [j \in 1..Len(res) |->
        IF j \in 1..Len(chunks)
        THEN [chunks[j] EXCEPT !.score = res[j].relevance_score]
        ELSE [score |-> res[j].relevance_score]]

\* results.map((r) => ({ ...chunks[r.index], score: r.relevance_score }));
\* spreading the undefined chunks[r.index] of an index out of range leaves
\* an object with the score alone
ApplyResults(chunks, res) ==
    [j \in 1..Len(res) |->
        IF res[j].index + 1 \in 1..Len(chunks)
        THEN [chunks[res[j].index + 1] EXCEPT !.score = res[j].relevance_score]
        ELSE [score |-> res[j].relevance_score]]

\* results.map((r) => ({ ...chunks[r.index], score: r.relevance_score }))
\* on the heap of the call, the elements of chunks first: each result adds
\* a new object and no existing object is written
RECURSIVE MapResultsOnHeap(_, _, _, _)
MapResultsOnHeap(heap, n, res, from) ==
    IF from > Len(res) THEN heap
    ELSE LET r == res[from]
             obj == IF r.index + 1 \in 1..n
                    THEN [heap[r.index + 1] EXCEPT !.score = r.relevance_score]
                    ELSE [score |-> r.relevance_score]
         IN  MapResultsOnHeap(Append(heap, obj), n, res, from + 1)

\* chunks as the caller of applyRerank finds it after the rerank method has
\* returned for the result list res
ChunksAfterRerank(chunks, res) ==
    IF Len(res) = 0 THEN chunks
    ELSE SubSeq(MapResultsOnHeap(chunks, Len(chunks), res, 1), 1, Len(chunks))

\* return results.map(...) without the test for an empty result list
RerankReturnUnguarded(chunks, res) == ApplyResults(chunks, res)

\* if (results.length === 0) return chunks; return results.map(...)
RerankReturn(chunks, res) ==
    IF Len(res) = 0 THEN chunks ELSE ApplyResults(chunks, res)

\* rerankTextWithVoyage up to its await: the call on srvVoyage.rerank
VoyageCall ==
    [query |-> rq.query,
     documents |-> [i \in 1..Len(rq.chunks) |-> DocText(rq.chunks[i])],
     top_k |-> Min(rq.k, Len(rq.chunks))]

CallVoyage ==
    /\ voyageCalls' = Append(voyageCalls, VoyageCall)
    /\ rpc' = "voyage"
    /\ UNCHANGED <<fetch, results, reranked, jinaCalls, fetchCalls>>

\* return chunks
PassThrough ==
    /\ reranked' = rq.chunks
    /\ rpc' = "done"
    /\ UNCHANGED <<fetch, results, voyageCalls, jinaCalls, fetchCalls>>

\* rerankImageWithJina up to its first await: every map callback runs to its
\* readFromUrl call (candidates with a cover image, when a store is set) or
\* returns its text document
StartFetches ==
    LET needs(i) == rq.chunks[i].coverImage # NoImage /\ srvStore
        urls == [i \in 1..Len(rq.chunks) |-> rq.chunks[i].coverImage]
    IN  /\ fetch' = [i \in 1..Len(rq.chunks) |->
                        IF needs(i) THEN [state |-> "pending"]
                        ELSE [state |-> "text", text |-> DocText(rq.chunks[i]),
                              outcome |-> "unfetched"]]
        /\ fetchCalls' = fetchCalls \o SelectSeq(urls, LAMBDA u : u # NoImage /\ srvStore)
        /\ rpc' = "fetch"
        /\ UNCHANGED <<results, reranked, voyageCalls, jinaCalls>>

\* the branch of applyRerank with the multimodal reranker tried for every
\* query type
RerankBranchImageFirst(a) ==
    IF Len(a.chunks) = 0 THEN "return"
    ELSE IF useRerankImage /\ srvJinaRerank THEN "jina"
    ELSE IF a.queryType = "image" THEN
         IF a.hasUserQuestion /\ useRerank THEN "voyage" ELSE "return"
    ELSE IF ~useRerank THEN "return"
    ELSE "voyage"

\* the branch of applyRerank with no text fallback for image queries
RerankBranchNoFallback(a) ==
    IF Len(a.chunks) = 0 THEN "return"
    ELSE IF a.queryType = "image" THEN
         IF useRerankImage /\ srvJinaRerank THEN "jina" ELSE "return"
    ELSE IF ~useRerank THEN "return"
    ELSE "voyage"

\* the branch of applyRerank with the text fallback taken whether or not
\* the user asked a question
RerankBranchAnyQuestion(a) ==
    IF Len(a.chunks) = 0 THEN "return"
    ELSE IF a.queryType = "image" THEN
         IF useRerankImage /\ srvJinaRerank THEN "jina"
         ELSE IF useRerank THEN "voyage"
         ELSE "return"
    ELSE IF ~useRerank THEN "return"
    ELSE "voyage"

\* the branch applyRerank takes on the arguments a: "return" (return
\* chunks), "jina" (rerankImageWithJina) or "voyage" (rerankTextWithVoyage).
\* srvVoyage is the VoyageAIService, whose rerank is always a function.
RerankBranch(a) ==
    IF Len(a.chunks) = 0 THEN "return"
    ELSE IF a.queryType = "image" THEN
         IF useRerankImage /\ srvJinaRerank THEN "jina"
         ELSE IF a.hasUserQuestion /\ useRerank THEN "voyage"
         ELSE "return"
    ELSE IF ~useRerank THEN "return"
    ELSE "voyage"

ApplyRerank ==
    /\ rpc = "apply"
    /\ \/ RerankBranch(rq) = "return" /\ PassThrough
       \/ RerankBranch(rq) = "jina" /\ StartFetches
       \/ RerankBranch(rq) = "voyage" /\ CallVoyage
    /\ UNCHANGED <<rq, configVars, rrfVars, askVars, extVars, sysVars>>

\* one readFromUrl settles, a rejection leaving the map callback uncaught:
\* Promise.all rejects and so does rerankImageWithJina
FetchSettlesUncaught(i, outcome) ==
    /\ rpc = "fetch"
    /\ i \in 1..Len(fetch)
    /\ fetch[i].state = "pending"
    /\ IF outcome = "throws"
       THEN rpc' = "failed" /\ UNCHANGED fetch
       ELSE /\ UNCHANGED rpc
            /\ fetch' = [fetch EXCEPT ![i] =
                    IF outcome = "bytes"
                    THEN [state |-> "image", image |-> rq.chunks[i].coverImage,
                          outcome |-> outcome]
                    ELSE [state |-> "text", text |-> DocText(rq.chunks[i]),
                          outcome |-> outcome]]
    /\ UNCHANGED <<rq, results, reranked, voyageCalls, jinaCalls, fetchCalls,
                   configVars, rrfVars, askVars, extVars, sysVars>>

\* one readFromUrl settles; the callback returns the image document or falls
\* back to the text document
FetchSettles(i, outcome) ==
    /\ rpc = "fetch"
    /\ i \in 1..Len(fetch)
    /\ fetch[i].state = "pending"
    /\ fetch' = [fetch EXCEPT ![i] =
                    IF outcome = "bytes"
                    THEN [state |-> "image", image |-> rq.chunks[i].coverImage,
                          outcome |-> outcome]
                    ELSE [state |-> "text", text |-> DocText(rq.chunks[i]),
                          outcome |-> outcome]]
    /\ UNCHANGED <<rq, rpc, results, reranked, voyageCalls, jinaCalls, fetchCalls,
                   configVars, rrfVars, askVars, extVars, sysVars>>

\* the document { image } or { text } of a settled callback
JinaDocument(f) ==
    IF f.state = "image" THEN [image |-> f.image] ELSE [text |-> f.text]

\* Promise.all has resolved: the call on srvJinaRerank.rerank
CallJina ==
    /\ rpc = "fetch"
    /\ \A i \in 1..Len(fetch) : fetch[i].state # "pending"
    /\ jinaCalls' = Append(jinaCalls,
            [query |-> rq.query,
             documents |-> [i \in 1..Len(fetch) |-> JinaDocument(fetch[i])],
             top_n |-> Min(rq.k, Len(rq.chunks))])
    /\ rpc' = "jina"
    /\ UNCHANGED <<rq, fetch, results, reranked, voyageCalls, fetchCalls,
                   configVars, rrfVars, askVars, extVars, sysVars>>

\* srvVoyage.rerank or srvJinaRerank.rerank resolves with a result list
GatewayReturns(r) ==
    /\ rpc \in {"voyage", "jina"}
    /\ results' = r
    /\ reranked' = RerankReturn(rq.chunks, r)
    /\ rq' = [rq EXCEPT !.chunks = ChunksAfterRerank(rq.chunks, r)]
    /\ rpc' = "done"
    /\ UNCHANGED <<fetch, voyageCalls, jinaCalls, fetchCalls,
                   configVars, rrfVars, askVars, extVars, sysVars>>

\* srvVoyage.rerank or srvJinaRerank.rerank rejects; neither rerank method
\* of RagService catches
GatewayThrows ==
    /\ rpc \in {"voyage", "jina"}
    /\ rpc' = "failed"
    /\ UNCHANGED <<rq, fetch, results, reranked, voyageCalls, jinaCalls, fetchCalls,
                   configVars, rrfVars, askVars, extVars, sysVars>>

----------------------------------------------------------------------------
(* Specification of applyRerank called with any arguments on any instance *)

RRFIdle ==
    /\ listA = <<>>
    /\ listB = <<>>
    /\ kConst = RRF_K
    /\ merged = <<>>
    /\ mpc = "idle"

InitRerank ==
    /\ RRFIdle
    /\ AskIdle
    /\ ExtIdle
    /\ SysIdle
    /\ useRerank \in BOOLEAN
    /\ useRerankImage \in BOOLEAN
    /\ srvJinaRerank \in BOOLEAN
    /\ srvStore \in BOOLEAN
    /\ rq \in [query : Queries, chunks : CandidateLists, k : {2, 5},
               queryType : QueryTypes, hasUserQuestion : BOOLEAN]
    /\ rpc = "apply"
    /\ fetch = <<>>
    /\ results = <<>>
    /\ reranked = <<>>
    /\ voyageCalls = <<>>
    /\ jinaCalls = <<>>
    /\ fetchCalls = <<>>

NextRerank ==
    \/ ApplyRerank
    \/ \E i \in 1..Cardinality(Ids), o \in FetchOutcomes : FetchSettles(i, o)
    \/ CallJina
    \/ \E r \in GatewayResults : GatewayReturns(r)
    \/ GatewayThrows

SpecRerank == InitRerank /\ [][NextRerank]_vars

----------------------------------------------------------------------------
(* RagService.askHybrid *)

\* results of the full-text search: distinct documents with their scores
LexicalLists ==
    { WithLexScores([i \in 1..Len(s) |-> Catalog(s[i])]) : s \in InjectiveSeqs(Ids) }

\* list.slice(0, k)
Slice(list, k) == SubSeq(list, 1, Min(k, Len(list)))

\* the candidates without the truncation to k
HybridChunksUntruncated(vec, lex, k) ==
    IF Len(lex) # 0 THEN mergeWithRRF(vec, lex, RRF_K) ELSE vec

\* fullTextDocs.length ? this.mergeWithRRF(vectorDocs, fullTextDocs).slice(0, k)
\*                     : vectorDocs
HybridChunks(vec, lex, k) ==
    IF Len(lex) # 0 THEN Slice(mergeWithRRF(vec, lex, RRF_K), k) ELSE vec

\* !this.searchIndexName || !question?.trim()
FullTextSkipped == searchIndexName = NoIndex \/ Trim(question) = <<>>

\* askHybrid up to its first await: getEmbedding and retrieveByFullText are
\* both called; retrieveByFullText returns [] at once without an index or
\* with a blank question, and otherwise awaits the $search aggregation
AskHybrid ==
    /\ apc = "call"
    /\ embedding' = "pending"
    /\ IF FullTextSkipped
       THEN ft' = "skipped" /\ fullTextDocs' = <<>>
       ELSE ft' = "pending" /\ UNCHANGED fullTextDocs
    /\ apc' = "join"
    /\ UNCHANGED <<searchIndexName, question, askK, vectorDocs, llmCalls,
                   askError, response, rrfVars, configVars, rerankVars, extVars, sysVars>>

\* srvVoyage.getEmbedding resolves
EmbeddingReturns ==
    /\ embedding = "pending"
    /\ embedding' = "ok"
    /\ UNCHANGED <<searchIndexName, question, askK, apc, ft, fullTextDocs, vectorDocs,
                   llmCalls, askError, response, rrfVars, configVars, rerankVars, extVars, sysVars>>

\* srvVoyage.getEmbedding rejects: Promise.all rejects and so does askHybrid
EmbeddingThrows ==
    /\ embedding = "pending"
    /\ embedding' = "throws"
    /\ apc' = "failed"
    /\ askError' = "embedding"
    /\ UNCHANGED <<searchIndexName, question, askK, ft, fullTextDocs, vectorDocs,
                   llmCalls, response, rrfVars, configVars, rerankVars, extVars, sysVars>>

\* the $search aggregation resolves with at most k documents
FullTextReturns(docs) ==
    /\ ft = "pending"
    /\ Len(docs) <= askK
    /\ ft' = "returned"
    /\ fullTextDocs' = docs
    /\ UNCHANGED <<searchIndexName, question, askK, apc, embedding, vectorDocs,
                   llmCalls, askError, response, rrfVars, configVars, rerankVars, extVars, sysVars>>

\* the $search aggregation rejects and the rejection reaches askHybrid
FullTextThrowsUncaught ==
    /\ ft = "pending"
    /\ ft' = "threw"
    /\ apc' = IF apc = "join" THEN "failed" ELSE apc
    /\ askError' = IF apc = "join" THEN "fulltext" ELSE askError
    /\ UNCHANGED <<searchIndexName, question, askK, embedding, fullTextDocs, vectorDocs,
                   llmCalls, response, rrfVars, configVars, rerankVars, extVars, sysVars>>

\* the $search aggregation rejects: the catch block logs and returns []
FullTextThrows ==
    /\ ft = "pending"
    /\ ft' = "threw"
    /\ fullTextDocs' = <<>>
    /\ UNCHANGED <<searchIndexName, question, askK, apc, embedding, vectorDocs,
                   llmCalls, askError, response, rrfVars, configVars, rerankVars, extVars, sysVars>>

\* retrieveRelevantChunks called as soon as the embedding is there, the
\* full-text search not awaited
VectorSearchEarly ==
    /\ apc = "join"
    /\ embedding = "ok"
    /\ apc' = "vector"
    /\ UNCHANGED <<searchIndexName, question, askK, embedding, ft, fullTextDocs,
                   vectorDocs, llmCalls, askError, response,
                   rrfVars, configVars, rerankVars, extVars, sysVars>>

\* Promise.all has resolved: retrieveRelevantChunks is called
VectorSearch ==
    /\ apc = "join"
    /\ embedding = "ok"
    /\ ft \in {"skipped", "returned", "threw"}
    /\ apc' = "vector"
    /\ UNCHANGED <<searchIndexName, question, askK, embedding, ft, fullTextDocs,
                   vectorDocs, llmCalls, askError, response,
                   rrfVars, configVars, rerankVars, extVars, sysVars>>

\* the $vectorSearch aggregation resolves with at most k documents; the
\* candidates are fused and applyRerank is called with queryType text
VectorReturns(docs) ==
    /\ apc = "vector"
    /\ Len(docs) <= askK
    /\ vectorDocs' = docs
    /\ rq' = [query |-> question, chunks |-> HybridChunks(docs, fullTextDocs, askK),
              k |-> askK, queryType |-> "text", hasUserQuestion |-> FALSE]
    /\ rpc' = "apply"
    /\ apc' = "rerank"
    /\ UNCHANGED <<searchIndexName, question, askK, embedding, ft, fullTextDocs,
                   llmCalls, askError, response, rrfVars, configVars,
                   fetch, results, reranked, voyageCalls, jinaCalls, fetchCalls,
                   extVars, sysVars>>

\* the $vectorSearch aggregation rejects
VectorThrows ==
    /\ apc = "vector"
    /\ apc' = "failed"
    /\ askError' = "vector"
    /\ UNCHANGED <<searchIndexName, question, askK, embedding, ft, fullTextDocs,
                   vectorDocs, llmCalls, response, rrfVars, configVars, rerankVars, extVars, sysVars>>

\* applyRerank has resolved: answerWithChunks calls srvLLM.invoke
AnswerWithChunks ==
    /\ apc = "rerank"
    /\ rpc = "done"
    /\ llmCalls' = Append(llmCalls, [question |-> question, chunks |-> reranked])
    /\ apc' = "llm"
    /\ UNCHANGED <<searchIndexName, question, askK, embedding, ft, fullTextDocs,
                   vectorDocs, askError, response, rrfVars, configVars, rerankVars, extVars, sysVars>>

\* applyRerank has rejected
RerankRejects ==
    /\ apc = "rerank"
    /\ rpc = "failed"
    /\ apc' = "failed"
    /\ askError' = "rerank"
    /\ UNCHANGED <<searchIndexName, question, askK, embedding, ft, fullTextDocs,
                   vectorDocs, llmCalls, response, rrfVars, configVars, rerankVars, extVars, sysVars>>

\* a field of a chunk as c.title reads it
Field(c, f) == IF f \in DOMAIN c THEN c[f] ELSE Undefined

\* the contextChunks entry is the chunk itself
PublicChunkWhole(c) == c

\* the contextChunks entry of a chunk
PublicChunk(c) ==
    [title |-> Field(c, "title"), description |-> Field(c, "description"),
     coverImage |-> Field(c, "coverImage"), score |-> Field(c, "score")]

\* srvLLM.invoke resolves; content is response?.content ?? ''
LlmReturns(content) ==
    /\ apc = "llm"
    /\ response' = [answer |-> content,
                    contextChunks |-> [i \in 1..Len(reranked) |-> PublicChunk(reranked[i])]]
    /\ apc' = "done"
    /\ UNCHANGED <<searchIndexName, question, askK, embedding, ft, fullTextDocs,
                   vectorDocs, llmCalls, askError, rrfVars, configVars, rerankVars, extVars, sysVars>>

\* srvLLM.invoke rejects
LlmThrows ==
    /\ apc = "llm"
    /\ apc' = "failed"
    /\ askError' = "llm"
    /\ UNCHANGED <<searchIndexName, question, askK, embedding, ft, fullTextDocs,
                   vectorDocs, llmCalls, response, rrfVars, configVars, rerankVars, extVars, sysVars>>

----------------------------------------------------------------------------
(* Specification of askHybrid on the instance bin/server.js constructs: no
   multimodal reranker and no store are passed to RagService *)

Questions == { <<"q">>, <<" ">> }

InitHybrid ==
    /\ RRFIdle
    /\ useRerank \in BOOLEAN
    /\ useRerankImage = FALSE
    /\ srvJinaRerank = FALSE
    /\ srvStore = FALSE
    /\ rq = NoCall
    /\ rpc = "idle"
    /\ fetch = <<>>
    /\ results = <<>>
    /\ reranked = <<>>
    /\ voyageCalls = <<>>
    /\ jinaCalls = <<>>
    /\ fetchCalls = <<>>
    /\ searchIndexName \in {NoIndex, "films_search"}
    /\ question \in Questions
    /\ askK \in {2, 5}
    /\ apc = "call"
    /\ embedding = "idle"
    /\ ft = "idle"
    /\ fullTextDocs = <<>>
    /\ vectorDocs = <<>>
    /\ llmCalls = <<>>
    /\ askError = "none"
    /\ response = NoResponse
    /\ ExtIdle
    /\ SysIdle

NextHybrid ==
    \/ AskHybrid
    \/ EmbeddingReturns
    \/ EmbeddingThrows
    \/ \E docs \in LexicalLists : FullTextReturns(docs)
    \/ FullTextThrows
    \/ VectorSearch
    \/ \E docs \in CandidateLists : VectorReturns(docs)
    \/ VectorThrows
    \/ ApplyRerank
    \/ \E r \in GatewayResults : GatewayReturns(r)
    \/ GatewayThrows
    \/ AnswerWithChunks
    \/ RerankRejects
    \/ \E content \in { <<>>, <<"a">> } : LlmReturns(content)
    \/ LlmThrows

SpecHybrid == InitHybrid /\ [][NextHybrid]_vars

----------------------------------------------------------------------------
(* Specification of the pure function mergeWithRRF *)

RerankIdle ==
    /\ useRerank = FALSE
    /\ useRerankImage = FALSE
    /\ srvJinaRerank = FALSE
    /\ srvStore = FALSE
    /\ rq = NoCall
    /\ rpc = "idle"
    /\ fetch = <<>>
    /\ results = <<>>
    /\ reranked = <<>>
    /\ voyageCalls = <<>>
    /\ jinaCalls = <<>>
    /\ fetchCalls = <<>>

InitRRF ==
    /\ RerankIdle
    /\ AskIdle
    /\ ExtIdle
    /\ SysIdle
    /\ listA \in { WithVecScores(s) : s \in SeqsUpTo(RRFDocs, MaxLen) }
    /\ listB \in { WithLexScores(s) : s \in SeqsUpTo(RRFDocs, MaxLen) }
    /\ kConst \in {0, RRF_K}
    /\ merged = <<>>
    /\ mpc = "call"

Merge ==
    /\ mpc = "call"
    /\ merged' = mergeWithRRF(listA, listB, kConst)
    /\ \E after \in {ArgumentsAfterMerge(listA, listB, kConst)} :
            listA' = after.listA /\ listB' = after.listB
    /\ mpc' = "done"
    /\ UNCHANGED kConst
    /\ UNCHANGED <<configVars, rerankVars, askVars, extVars, sysVars>>

NextRRF == Merge

SpecRRF == InitRRF /\ [][NextRRF]_vars

----------------------------------------------------------------------------
(* The provider gateways: VoyageAIService.getEmbedding, getImageEmbedding
   and rerank, and JinaRerankService.rerank.  The values they return are
   tagged records: null, an embedding (an array of numbers, named by the
   input it embeds), a list of embeddings, a list of rerank results. *)

Methods == { "getEmbedding", "getImageEmbedding", "voyageRerank", "jinaRerank" }

\* const waitMs = 65_000
WaitMs == 65000

\* response.status === 429
RateLimited == 429

\* statuses of a response that is not OK
Statuses == { RateLimited, 500 }

Null == [type |-> "null"]

\* the embedding the provider computes for the input t
Vec(t) == [type |-> "array", of |-> t]

\* an embedding field holding []
EmptyVector == [type |-> "array", of |-> "nothing"]

\* an embedding field that is missing
NotArray == [type |-> "undefined"]

\* Array.isArray(embedding)
IsArray(e) == e.type = "array"

List(items) == [type |-> "list", items |-> items]

RerankResults(r) == [type |-> "results", items |-> r]

SUPPORTED_IMAGE_MIME_TYPES == { "image/jpeg", "image/png", "image/webp", "image/gif" }

\* normalizeImageMimeType on a lower-case, trimmed MIME type
normalizeImageMimeType(mimeType) ==
    LET normalized == IF mimeType = "image/jpg" THEN "image/jpeg" ELSE mimeType
    IN  IF normalized \in SUPPORTED_IMAGE_MIME_TYPES THEN normalized ELSE "image/jpeg"

\* the texts handed to getEmbedding
Texts == { "a", "b", "c" }

\* input of getEmbedding: one string, or an ordered list of distinct strings
EmbeddingInputs ==
    { [type |-> "text", isArray |-> FALSE, texts |-> <<t>>] : t \in Texts }
    \cup { [type |-> "text", isArray |-> TRUE, texts |-> l] : l \in InjectiveSeqs(Texts) }

\* input of getImageEmbedding: a Buffer or something else, and a MIME type
ImageInputs ==
    [type : {"image"}, isBuffer : BOOLEAN, mimeType : {"image/png", "image/jpg"}]

\* input of a rerank: query, documents and options.top_k or options.top_n
RerankInputs ==
    [type : {"rerank"}, query : Questions,
     documents : { <<>>, << <<"D">> >>, << <<"D">>, <<"s">> >> },
     top : {1, 5}]

GatewayInputs(m) ==
    CASE m = "getEmbedding" -> EmbeddingInputs
      [] m = "getImageEmbedding" -> ImageInputs
      [] OTHER -> RerankInputs

\* the JSON body of the provider request
Request(m, in) ==
    CASE m = "getEmbedding" -> [input |-> in.texts]
      [] m = "getImageEmbedding" ->
            [image_base64 |-> [mime |-> normalizeImageMimeType(in.mimeType)]]
      [] m = "voyageRerank" ->
            [query |-> Trim(in.query), documents |-> in.documents,
             top_k |-> Min(in.top, Len(in.documents))]
      [] OTHER ->
            [query |-> Trim(in.query), documents |-> in.documents,
             top_n |-> Min(in.top, Len(in.documents))]

\* the tests that return before any provider request
EarlyReturn(m, in) ==
    CASE m = "getEmbedding" -> FALSE
      [] m = "getImageEmbedding" -> ~in.isBuffer
      [] OTHER -> Trim(in.query) = <<>> \/ Len(in.documents) = 0

EarlyValue(m) == IF m = "getImageEmbedding" THEN Null ELSE RerankResults(<<>>)

Retry == [kind |-> "retry"]

Threw == [kind |-> "threw"]

Returned(v) == [kind |-> "returned", value |-> v]

\* the method up to its fetch
Invoke(m, in) ==
    IF EarlyReturn(m, in)
    THEN [NotCalled EXCEPT !.method = m, !.input = in, !.stage = "done",
                           !.result = Returned(EarlyValue(m))]
    ELSE [NotCalled EXCEPT !.method = m, !.input = in, !.stage = "request",
                           !.requests = <<[body |-> Request(m, in), after |-> 0]>>]

\* if (!response.ok) answering the retry even when options.retried is set
OnNotOkRetryAlways(m, status, retried) ==
    CASE m = "getEmbedding" -> IF status = RateLimited THEN Retry ELSE Threw
      [] m = "getImageEmbedding" ->
            IF status = RateLimited THEN Retry ELSE Returned(Null)
      [] m = "voyageRerank" -> Returned(RerankResults(<<>>))
      [] OTHER ->
            IF status = RateLimited THEN Retry ELSE Returned(RerankResults(<<>>))

\* if (!response.ok): getEmbedding, getImageEmbedding and the Jina rerank
\* retry a first 429; otherwise getEmbedding throws, getImageEmbedding
\* returns null and both reranks return []; the Voyage rerank has no retry
OnNotOk(m, status, retried) ==
    CASE m = "getEmbedding" ->
            IF status = RateLimited /\ ~retried THEN Retry ELSE Threw
      [] m = "getImageEmbedding" ->
            IF status = RateLimited /\ ~retried THEN Retry ELSE Returned(Null)
      [] m = "voyageRerank" -> Returned(RerankResults(<<>>))
      [] OTHER ->
            IF status = RateLimited /\ ~retried THEN Retry
            ELSE Returned(RerankResults(<<>>))

\* a rejection nobody catches in any method
OnRejectedUncaught(m) == Threw

\* fetch or response.json() rejects: only getImageEmbedding has a try/catch
OnRejected(m) == IF m = "getImageEmbedding" THEN Returned(Null) ELSE Threw

\* embeddings[0] of a single input returned inside the list
OnOkAlwaysList(m, in, body) ==
    CASE m = "getEmbedding" ->
            IF ~body.hasData THEN Threw
            ELSE Returned(List([i \in 1..Len(body.data) |-> body.data[i].embedding]))
      [] m = "getImageEmbedding" ->
            LET e == IF body.hasData /\ Len(body.data) > 0
                     THEN body.data[1].embedding ELSE NotArray
            IN  Returned(IF IsArray(e) THEN e ELSE Null)
      [] OTHER -> Returned(RerankResults(IF body.hasData THEN body.data ELSE <<>>))

\* the response is OK and its body parsed: result.data.map throws on a body
\* without data; result.data?.[0]?.embedding and result.data ?? [] do not
OnOk(m, in, body) ==
    CASE m = "getEmbedding" ->
            IF ~body.hasData THEN Threw
            ELSE LET embeddings == [i \in 1..Len(body.data) |-> body.data[i].embedding]
                 IN  Returned(IF in.isArray THEN List(embeddings)
                              ELSE IF Len(embeddings) > 0 THEN embeddings[1]
                              ELSE NotArray)
      [] m = "getImageEmbedding" ->
            LET e == IF body.hasData /\ Len(body.data) > 0
                     THEN body.data[1].embedding ELSE NotArray
            IN  Returned(IF IsArray(e) THEN e ELSE Null)
      [] OTHER -> Returned(RerankResults(IF body.hasData THEN body.data ELSE <<>>))

\* what the method does with a provider response: retry, return or throw
Respond(m, in, retried, resp) ==
    CASE resp.kind = "network" -> OnRejected(m)
      [] resp.kind = "unparsable" -> OnRejected(m)
      [] resp.kind = "status" -> OnNotOk(m, resp.status, retried)
      [] OTHER -> OnOk(m, in, resp.body)

\* a body without the data (results) field
NoDataBody == [hasData |-> FALSE, data |-> <<>>]

\* bodies of an OK response to the request body b: for text embeddings one
\* vector per input in input order, for an image one entry whose embedding
\* is an array, an empty array or missing, for a rerank one of rerankData
Bodies(m, b, rerankData) ==
    {NoDataBody} \cup
    CASE m = "getEmbedding" ->
            { [hasData |-> TRUE,
               data |-> [i \in 1..Len(b.input) |-> [embedding |-> Vec(b.input[i])]]] }
      [] m = "getImageEmbedding" ->
            { [hasData |-> TRUE, data |-> <<[embedding |-> e]>>] :
                e \in { Vec("image"), EmptyVector, NotArray } }
      [] OTHER -> { [hasData |-> TRUE, data |-> r] : r \in rerankData }

\* what the provider may answer to the last request of the call g
ResponsesTo(g, rerankData) ==
    { [kind |-> "network"], [kind |-> "unparsable"] }
    \cup { [kind |-> "status", status |-> s] : s \in Statuses }
    \cup { [kind |-> "ok", body |-> b] :
            b \in Bodies(g.method, g.requests[Len(g.requests)].body, rerankData) }

\* a caller invokes the method m on the input in
GatewayCall(c, m, in) ==
    /\ gw[c].stage = "idle"
    /\ gw' = [gw EXCEPT ![c] = Invoke(m, in)]
    /\ UNCHANGED <<rrfVars, configVars, rerankVars, askVars,
                   entry, options, llmCall, envCall, req, sysVars>>

\* options?.retried of the call c
Retried(c) == gw[c].retried

\* the fetch of the call c settles
ProviderResponds(c, resp) ==
    /\ gw[c].stage = "request"
    /\ LET g == gw[c]
           o == Respond(g.method, g.input, Retried(c), resp)
           log == Append(g.responses, resp)
       IN  gw' = [gw EXCEPT ![c] =
                    IF o.kind = "retry"
                    THEN [g EXCEPT !.stage = "cooldown", !.responses = log]
                    ELSE [g EXCEPT !.stage = "done", !.responses = log, !.result = o]]
    /\ UNCHANGED <<rrfVars, configVars, rerankVars, askVars,
                   entry, options, llmCall, envCall, req, sysVars>>

\* the timer of the call c fires: the method calls itself with the same
\* input and { ...options, retried: true }
CooldownElapses(c) ==
    /\ gw[c].stage = "cooldown"
    /\ LET g == gw[c]
       IN  gw' = [gw EXCEPT ![c] =
                    [g EXCEPT !.stage = "request", !.retried = TRUE,
                              !.requests = Append(g.requests,
                                  [body |-> Request(g.method, g.input),
                                   after |-> WaitMs])]]
    /\ UNCHANGED <<rrfVars, configVars, rerankVars, askVars,
                   entry, options, llmCall, envCall, req, sysVars>>

----------------------------------------------------------------------------
(* Specification of two gateway calls in flight together *)

\* result lists of at most one entry
ShortResults == { r \in GatewayResults : Len(r) <= 1 }

InitGateway ==
    /\ RRFIdle
    /\ RerankIdle
    /\ AskIdle
    /\ ExtIdle
    /\ SysIdle

NextGateway ==
    \E c \in Calls :
        \/ \E m \in Methods : \E in \in GatewayInputs(m) : GatewayCall(c, m, in)
        \/ \E resp \in ResponsesTo(gw[c], ShortResults) : ProviderResponds(c, resp)
        \/ CooldownElapses(c)

SpecGateway == InitGateway /\ [][NextGateway]_vars

----------------------------------------------------------------------------
(* RagService.askText and RagService.askImage *)

\* options.question of askImage
ImageOptions ==
    { NoOptions, [given |-> TRUE, text |-> <<"q">>], [given |-> TRUE, text |-> <<" ">>] }

\* Boolean(options.question?.trim())
HasUserQuestion == options.given /\ Trim(options.text) # <<>>

DefaultImageQuestion == <<"What films are relevant to this image?">>

\* options.question ?? 'What films are relevant to this image?'
ImageQuestion == IF options.given THEN options.text ELSE DefaultImageQuestion

CouldNotEmbed == <<"Could not generate an embedding from the image.">>

\* askText up to its first await: srvVoyage.getEmbedding is called
AskText ==
    /\ apc = "call"
    /\ entry = "text"
    /\ embedding' = "pending"
    /\ apc' = "embed"
    /\ UNCHANGED <<searchIndexName, question, askK, ft, fullTextDocs, vectorDocs,
                   llmCalls, askError, response, rrfVars, configVars, rerankVars,
                   extVars, sysVars>>

\* askImage up to its first await: srvVoyage.getImageEmbedding is called
AskImage ==
    /\ apc = "call"
    /\ entry = "image"
    /\ question' = ImageQuestion
    /\ embedding' = "pending"
    /\ apc' = "embed"
    /\ UNCHANGED <<searchIndexName, askK, ft, fullTextDocs, vectorDocs,
                   llmCalls, askError, response, rrfVars, configVars, rerankVars,
                   extVars, sysVars>>

\* what getImageEmbedding resolves to: an array with elements, null or []
ImageEmbeddings == { "ok", "null", "empty" }

\* srvVoyage.getImageEmbedding resolves
ImageEmbeddingReturns(e) ==
    /\ entry = "image"
    /\ embedding = "pending"
    /\ embedding' = e
    /\ UNCHANGED <<searchIndexName, question, askK, apc, ft, fullTextDocs, vectorDocs,
                   llmCalls, askError, response, rrfVars, configVars, rerankVars,
                   extVars, sysVars>>

\* !embedding?.length
NoEmbedding == embedding \in {"null", "empty"}

\* askImage goes on to the vector search whatever the embedding is
ImageShortCircuitMissing ==
    /\ apc = "embed"
    /\ entry = "image"
    /\ NoEmbedding
    /\ apc' = "retrieve"
    /\ UNCHANGED <<searchIndexName, question, askK, embedding, ft, fullTextDocs,
                   vectorDocs, llmCalls, askError, response,
                   rrfVars, configVars, rerankVars, extVars, sysVars>>

\* if (!embedding?.length) return { answer: 'Could not ...', contextChunks: [] }
ImageShortCircuit ==
    /\ apc = "embed"
    /\ entry = "image"
    /\ NoEmbedding
    /\ response' = [answer |-> CouldNotEmbed, contextChunks |-> <<>>]
    /\ apc' = "done"
    /\ UNCHANGED <<searchIndexName, question, askK, embedding, ft, fullTextDocs,
                   vectorDocs, llmCalls, askError, rrfVars, configVars, rerankVars,
                   extVars, sysVars>>

\* the embedding is awaited: retrieveRelevantChunks is called
Retrieve ==
    /\ apc = "embed"
    /\ embedding = "ok"
    /\ apc' = "retrieve"
    /\ UNCHANGED <<searchIndexName, question, askK, embedding, ft, fullTextDocs,
                   vectorDocs, llmCalls, askError, response,
                   rrfVars, configVars, rerankVars, extVars, sysVars>>

\* the $vectorSearch aggregation resolves with at most k documents and
\* applyRerank is called with the query type of the ask method
RetrieveReturns(docs) ==
    /\ apc = "retrieve"
    /\ Len(docs) <= askK
    /\ vectorDocs' = docs
    /\ rq' = [query |-> question, chunks |-> docs, k |-> askK, queryType |-> entry,
              hasUserQuestion |-> (entry = "image" /\ HasUserQuestion)]
    /\ rpc' = "apply"
    /\ apc' = "rerank"
    /\ UNCHANGED <<searchIndexName, question, askK, embedding, ft, fullTextDocs,
                   llmCalls, askError, response, rrfVars, configVars,
                   fetch, results, reranked, voyageCalls, jinaCalls, fetchCalls,
                   extVars, sysVars>>

\* the $vectorSearch aggregation rejects
RetrieveThrows ==
    /\ apc = "retrieve"
    /\ apc' = "failed"
    /\ askError' = "vector"
    /\ UNCHANGED <<searchIndexName, question, askK, embedding, ft, fullTextDocs,
                   vectorDocs, llmCalls, response, rrfVars, configVars, rerankVars,
                   extVars, sysVars>>

----------------------------------------------------------------------------
(* The rerank call of a request, made on the provider gateway *)

\* the arguments rerankTextWithVoyage or rerankImageWithJina passed
RerankInput ==
    IF rpc = "voyage"
    THEN LET a == voyageCalls[Len(voyageCalls)]
         IN  [type |-> "rerank", query |-> a.query, documents |-> a.documents,
              top |-> a.top_k]
    ELSE LET a == jinaCalls[Len(jinaCalls)]
         IN  [type |-> "rerank", query |-> a.query, documents |-> a.documents,
              top |-> a.top_n]

\* srvVoyage.rerank or srvJinaRerank.rerank runs up to its fetch
RerankGatewayCall ==
    /\ rpc \in {"voyage", "jina"}
    /\ GatewayCall("a", IF rpc = "voyage" THEN "voyageRerank" ELSE "jinaRerank",
                   RerankInput)

\* the awaiting rerank method of RagService resumes with what the gateway
\* call settled to
RerankGatewaySettles ==
    /\ gw["a"].stage = "done"
    /\ IF gw["a"].result.kind = "returned"
       THEN GatewayReturns(gw["a"].result.value.items)
       ELSE GatewayThrows

----------------------------------------------------------------------------
(* Specification of one request on askText, askImage or askHybrid, its
   rerank call running on the provider gateway *)

InitAsk ==
    /\ RRFIdle
    /\ useRerank \in BOOLEAN
    /\ useRerankImage \in BOOLEAN
    /\ srvJinaRerank = useRerankImage
    /\ srvStore = useRerankImage
    /\ rq = NoCall
    /\ rpc = "idle"
    /\ fetch = <<>>
    /\ results = <<>>
    /\ reranked = <<>>
    /\ voyageCalls = <<>>
    /\ jinaCalls = <<>>
    /\ fetchCalls = <<>>
    /\ entry \in {"text", "image", "hybrid"}
    /\ options \in IF entry = "image" THEN ImageOptions ELSE {NoOptions}
    /\ searchIndexName \in IF entry = "hybrid" THEN {NoIndex, "films_search"} ELSE {NoIndex}
    /\ question \in IF entry = "image" THEN {<<>>} ELSE {<<"q">>}
    /\ askK \in {2}
    /\ apc = "call"
    /\ embedding = "idle"
    /\ ft = "idle"
    /\ fullTextDocs = <<>>
    /\ vectorDocs = <<>>
    /\ llmCalls = <<>>
    /\ askError = "none"
    /\ response = NoResponse
    /\ gw = [c \in Calls |-> NotCalled]
    /\ llmCall = TRUE
    /\ envCall = TRUE
    /\ req = [r \in Reqs |-> NoRequest]
    /\ SysIdle

NextAsk ==
    \/ AskText
    \/ AskImage
    \/ entry = "hybrid" /\ AskHybrid
    \/ entry # "image" /\ EmbeddingReturns
    \/ entry # "image" /\ EmbeddingThrows
    \/ \E e \in ImageEmbeddings : ImageEmbeddingReturns(e)
    \/ ImageShortCircuit
    \/ Retrieve
    \/ \E docs \in CandidateLists : RetrieveReturns(docs)
    \/ RetrieveThrows
    \/ \E docs \in LexicalLists : FullTextReturns(docs)
    \/ FullTextThrows
    \/ VectorSearch
    \/ \E docs \in CandidateLists : VectorReturns(docs)
    \/ VectorThrows
    \/ ApplyRerank
    \/ \E i \in 1..Cardinality(Ids), o \in FetchOutcomes : FetchSettles(i, o)
    \/ CallJina
    \/ RerankGatewayCall
    \/ \E resp \in ResponsesTo(gw["a"], ShortResults) : ProviderResponds("a", resp)
    \/ CooldownElapses("a")
    \/ RerankGatewaySettles
    \/ AnswerWithChunks
    \/ RerankRejects
    \/ \E content \in { <<>>, <<"a">> } : LlmReturns(content)
    \/ LlmThrows

SpecAsk == InitAsk /\ [][NextAsk]_vars

----------------------------------------------------------------------------
(* RagController: the handlers of /ask/text, /ask/image and /ask/hybrid and
   the call flag of the one OllamaService instance they share *)

\* req.query.call: absent, or a string
CallParams == { Undefined, "true", "false", "1" }

\* applyCallFlag: the value of srvLLM.call after a request with the query
\* parameter call
applyCallFlag(call, current) ==
    IF call # Undefined THEN call = "true" ELSE current

\* a handler runs up to its await: an invalid request is answered 400;
\* otherwise applyCallFlag writes srvLLM.call and the ask method is called
Handle(r) ==
    /\ req[r].pc = "arrived"
    /\ IF ~req[r].valid
       THEN /\ req' = [req EXCEPT ![r].pc = "bad"]
            /\ UNCHANGED llmCall
       ELSE /\ llmCall' = applyCallFlag(req[r].call, llmCall)
            /\ req' = [req EXCEPT ![r].pc = "asking"]
    /\ UNCHANGED <<rrfVars, configVars, rerankVars, askVars, entry, options, gw, envCall,
                   sysVars>>

\* the ask method of the request reaches answerWithChunks: srvLLM.invoke
\* calls the model when this.call is set and returns the placeholder
\* otherwise; the handler answers 200
LlmInvoke(r) ==
    /\ req[r].pc = "asking"
    /\ req' = [req EXCEPT ![r].pc = "done", ![r].generated = llmCall]
    /\ UNCHANGED <<rrfVars, configVars, rerankVars, askVars, entry, options, gw,
                   llmCall, envCall, sysVars>>

\* the ask method of the request rejects before srvLLM.invoke: the handler
\* answers 500
AskFails(r) ==
    /\ req[r].pc = "asking"
    /\ req' = [req EXCEPT ![r].pc = "error"]
    /\ UNCHANGED <<rrfVars, configVars, rerankVars, askVars, entry, options, gw,
                   llmCall, envCall, sysVars>>

----------------------------------------------------------------------------
(* Specification of two HTTP requests handled together *)

InitCall ==
    /\ RRFIdle
    /\ RerankIdle
    /\ AskIdle
    /\ entry = "none"
    /\ options = NoOptions
    /\ gw = [c \in Calls |-> NotCalled]
    /\ envCall \in BOOLEAN
    /\ llmCall = envCall
    /\ req \in [Reqs -> [call : CallParams, valid : BOOLEAN, pc : {"arrived"},
                         generated : {FALSE}]]
    /\ SysIdle

NextCall ==
    \E r \in Reqs :
        \/ Handle(r)
        \/ LlmInvoke(r)
        \/ AskFails(r)

SpecCall == InitCall /\ [][NextCall]_vars

----------------------------------------------------------------------------
(* RagController.handleAskText, handleAskImage and handleAskHybrid: one
   request from its arrival to its response *)

\* req.body.question: absent, or a string
BodyQuestions ==
    { NoOptions, [given |-> TRUE, text |-> <<" ">>], [given |-> TRUE, text |-> <<" ", "q">>] }

\* req.query.k: absent, or a string
KParams == { "0", "-3", "2" }

\* parseInt(s, 10): NaN for an absent or non-numeric value
parseInt(s) ==
    CASE s = "0"  -> [nan |-> FALSE, n |-> 0]
      [] s = "-3" -> [nan |-> FALSE, n |-> 0 - 3]
      [] s = "2"  -> [nan |-> FALSE, n |-> 2]
      [] s = "50" -> [nan |-> FALSE, n |-> 50]
      [] OTHER    -> [nan |-> TRUE, n |-> 0]

\* Math.min(20, Math.max(1, parseInt(req.query.k, 10) || 5))
ClampK(s) ==
    LET p == parseInt(s)
        n == IF p.nan \/ p.n = 0 THEN 5 ELSE p.n
        atLeast1 == IF n < 1 THEN 1 ELSE n
    IN  IF atLeast1 > 20 THEN 20 ELSE atLeast1

\* !question || typeof question !== 'string' || !question.trim(), with the
\* blank test done on the untrimmed string
QuestionMissingUntrimmed(q) == ~q.given \/ q.text = <<>>

\* !question || typeof question !== 'string' || !question.trim()
QuestionMissing(q) == ~q.given \/ Trim(q.text) = <<>>

\* the handlers of /ask/text and /ask/hybrid up to their await: a missing or
\* blank question is answered 400; otherwise applyCallFlag runs and the ask
\* method is called with the trimmed question and the clamped k
HandleQuestionRoute(e) ==
    /\ http.pc = "arrived"
    /\ entry = e
    /\ IF QuestionMissing(http.question)
       THEN /\ http' = [http EXCEPT !.pc = "answered", !.status = 400]
            /\ UNCHANGED <<question, askK, apc, llmCall>>
       ELSE /\ llmCall' = applyCallFlag(http.call, llmCall)
            /\ question' = Trim(http.question.text)
            /\ askK' = ClampK(http.k)
            /\ apc' = "call"
            /\ http' = [http EXCEPT !.pc = "asking"]
    /\ UNCHANGED <<searchIndexName, embedding, ft, fullTextDocs, vectorDocs,
                   llmCalls, askError, response, rrfVars, configVars, rerankVars,
                   entry, options, gw, envCall, req,
                   indexes, setup, stored, trig, films, del>>

handleAskText == HandleQuestionRoute("text")

handleAskHybrid == HandleQuestionRoute("hybrid")

\* typeof body.question === 'string' ? body.question.trim() : undefined
ImageRouteQuestion(q) ==
    IF q.given THEN [given |-> TRUE, text |-> Trim(q.text)] ELSE NoOptions

\* the handler of /ask/image up to its await: a request without a parsable
\* image is answered 400; otherwise applyCallFlag runs and askImage is called
handleAskImage ==
    /\ http.pc = "arrived"
    /\ entry = "image"
    /\ IF ~http.image
       THEN /\ http' = [http EXCEPT !.pc = "answered", !.status = 400]
            /\ UNCHANGED <<options, askK, apc, llmCall>>
       ELSE /\ llmCall' = applyCallFlag(http.call, llmCall)
            /\ options' = ImageRouteQuestion(http.question)
            /\ askK' = ClampK(http.k)
            /\ apc' = "call"
            /\ http' = [http EXCEPT !.pc = "asking"]
    /\ UNCHANGED <<searchIndexName, question, embedding, ft, fullTextDocs, vectorDocs,
                   llmCalls, askError, response, rrfVars, configVars, rerankVars,
                   entry, gw, envCall, req,
                   indexes, setup, stored, trig, films, del>>

\* the catch block of a handler answers 200 with an empty result
HandlerCatchesAsSuccess ==
    /\ http.pc = "asking"
    /\ apc = "failed"
    /\ http' = [http EXCEPT !.pc = "answered", !.status = 200]
    /\ UNCHANGED <<rrfVars, configVars, rerankVars, askVars, extVars,
                   indexes, setup, stored, trig, films, del>>

\* the ask method rejects: the catch block of the handler answers 500
HandlerCatches ==
    /\ http.pc = "asking"
    /\ apc = "failed"
    /\ http' = [http EXCEPT !.pc = "answered", !.status = 500]
    /\ UNCHANGED <<rrfVars, configVars, rerankVars, askVars, extVars,
                   indexes, setup, stored, trig, films, del>>

\* the ask method resolves: res.status(200).json(result)
HandlerResponds ==
    /\ http.pc = "asking"
    /\ apc = "done"
    /\ http' = [http EXCEPT !.pc = "answered", !.status = 200, !.body = response]
    /\ UNCHANGED <<rrfVars, configVars, rerankVars, askVars, extVars,
                   indexes, setup, stored, trig, films, del>>

----------------------------------------------------------------------------
(* Specification of one HTTP request on /ask/text, /ask/image or /ask/hybrid,
   from the handler through the ask method to the response, on the instance
   bin/server.js constructs: no multimodal reranker and no store are passed
   to RagService *)

InitHttp ==
    /\ RRFIdle
    /\ useRerank \in BOOLEAN
    /\ useRerankImage = FALSE
    /\ srvJinaRerank = FALSE
    /\ srvStore = FALSE
    /\ rq = NoCall
    /\ rpc = "idle"
    /\ fetch = <<>>
    /\ results = <<>>
    /\ reranked = <<>>
    /\ voyageCalls = <<>>
    /\ jinaCalls = <<>>
    /\ fetchCalls = <<>>
    /\ entry \in {"text", "image", "hybrid"}
    /\ options = NoOptions
    /\ searchIndexName \in IF entry = "hybrid" THEN {NoIndex, "films_search"} ELSE {NoIndex}
    /\ question = <<>>
    /\ askK = 0
    /\ apc = "idle"
    /\ embedding = "idle"
    /\ ft = "idle"
    /\ fullTextDocs = <<>>
    /\ vectorDocs = <<>>
    /\ llmCalls = <<>>
    /\ askError = "none"
    /\ response = NoResponse
    /\ gw = [c \in Calls |-> NotCalled]
    /\ llmCall = TRUE
    /\ envCall = TRUE
    /\ req = [r \in Reqs |-> NoRequest]
    /\ http \in [pc : {"arrived"}, question : BodyQuestions, k : KParams,
                 image : IF entry = "image" THEN BOOLEAN ELSE {FALSE},
                 call : {Undefined}, status : {0}, body : {NoResponse}]
    /\ indexes = {}
    /\ setup = NoSetup
    /\ stored = NoDocument
    /\ trig = NoTrigger
    /\ films = {}
    /\ del = [d \in Deleters |-> NoDelete]

NextHttp ==
    \/ handleAskText
    \/ handleAskImage
    \/ handleAskHybrid
    \/ HandlerResponds
    \/ HandlerCatches
    \/ AskText
    \/ AskImage
    \/ entry = "hybrid" /\ AskHybrid
    \/ entry # "image" /\ EmbeddingReturns
    \/ entry # "image" /\ EmbeddingThrows
    \/ \E e \in ImageEmbeddings : ImageEmbeddingReturns(e)
    \/ ImageShortCircuit
    \/ Retrieve
    \/ \E docs \in CandidateLists : RetrieveReturns(docs)
    \/ RetrieveThrows
    \/ \E docs \in LexicalLists : FullTextReturns(docs)
    \/ FullTextThrows
    \/ VectorSearch
    \/ \E docs \in CandidateLists : VectorReturns(docs)
    \/ VectorThrows
    \/ ApplyRerank
    \/ RerankGatewayCall
    \/ \E resp \in ResponsesTo(gw["a"], ShortResults) : ProviderResponds("a", resp)
    \/ RerankGatewaySettles
    \/ AnswerWithChunks
    \/ RerankRejects
    \/ \E content \in { <<>>, <<"a">> } : LlmReturns(content)
    \/ LlmThrows

SpecHttp == InitHttp /\ [][NextHttp]_vars

----------------------------------------------------------------------------
(* Specification of a fusion followed by a rerank of the fused list, as
   askHybrid runs them, with the argument lists kept in the state to show
   what the calls leave in them *)

\* askHybrid from the fused list to applyRerank: chunks is
\* mergeWithRRF(vectorDocs, fullTextDocs).slice(0, k)
RerankFused(q, k) ==
    /\ mpc = "done"
    /\ rpc = "idle"
    /\ rq' = [query |-> q, chunks |-> Slice(merged, k), k |-> k,
              queryType |-> "text", hasUserQuestion |-> FALSE]
    /\ rpc' = "apply"
    /\ UNCHANGED <<fetch, results, reranked, voyageCalls, jinaCalls, fetchCalls,
                   rrfVars, configVars, askVars, extVars, sysVars>>

InitFrame ==
    /\ AskIdle
    /\ ExtIdle
    /\ SysIdle
    /\ listA \in CandidateLists
    /\ listB \in LexicalLists
    /\ kConst = RRF_K
    /\ merged = <<>>
    /\ mpc = "call"
    /\ useRerank \in BOOLEAN
    /\ useRerankImage = FALSE
    /\ srvJinaRerank = FALSE
    /\ srvStore = FALSE
    /\ rq = NoCall
    /\ rpc = "idle"
    /\ fetch = <<>>
    /\ results = <<>>
    /\ reranked = <<>>
    /\ voyageCalls = <<>>
    /\ jinaCalls = <<>>
    /\ fetchCalls = <<>>

NextFrame ==
    \/ Merge
    \/ RerankFused(<<"q">>, 2)
    \/ ApplyRerank
    \/ \E r \in GatewayResults : GatewayReturns(r)
    \/ GatewayThrows

SpecFrame == InitFrame /\ [][NextFrame]_vars

----------------------------------------------------------------------------
(* SetupService.run: ensureCollection, then ensureVectorSearchIndex on the
   search indexes of the collection *)

\* how many times run() is called on the collection
MaxRuns == 2

\* `${this.vectorIndexName}_text_index` and the two other names the service
\* creates, with the default vectorIndexName
TextIndex == "rag_vector_text_index"
ImageIndex == "rag_vector_image_index"
ComposedIndex == "rag_vector_composed_index"

\* a search index the service does not create
OtherIndex == "films_search"

IndexNames == {TextIndex, ImageIndex, ComposedIndex, OtherIndex}

\* options.indexType; 'both' is the default
IndexTypes == {"both", "text", "image", "composed"}

\* what listSearchIndexes returns: the array of the indexes when the cursor
\* could be read, and undefined (the bare return of the catch block) when
\* it could not
listSearchIndexes(ok, ixs) ==
    IF ok THEN [array |-> TRUE, names |-> ixs]
    ELSE [array |-> FALSE, names |-> {}]

\* the names createComposedIndex, createTextIndex and createImageIndex are
\* called for by ensureVectorSearchIndex
Wanted(indexType) ==
    (IF indexType = "composed" THEN {ComposedIndex} ELSE {})
        \cup (IF indexType \in {"text", "both"} THEN {TextIndex} ELSE {})
        \cup (IF indexType \in {"image", "both"} THEN {ImageIndex} ELSE {})

\* createTextIndex and its two siblings: the index is created unless
\* existingIndexes has an index of its name
CreatedBy(indexType, existingIndexes) ==
    { n \in Wanted(indexType) : n \notin existingIndexes.names }

\* run() is called: ensureCollection resolves (it does not touch the search
\* indexes) and ensureVectorSearchIndex starts
Run ==
    /\ setup.pc \in {"ready", "done", "failed"}
    /\ setup.runs < MaxRuns
    /\ setup' = [setup EXCEPT !.pc = "list", !.runs = @ + 1, !.error = "none",
                              !.existingIndexes = [array |-> TRUE, names |-> {}]]
    /\ UNCHANGED <<rrfVars, configVars, rerankVars, askVars, extVars,
                   http, indexes, stored, trig, films, del>>

\* const existingIndexes = await this.listSearchIndexes(collection)
ListExisting(ok) ==
    /\ setup.pc = "list"
    /\ setup' = [setup EXCEPT !.pc = "clean",
                              !.existingIndexes = listSearchIndexes(ok, indexes)]
    /\ UNCHANGED <<rrfVars, configVars, rerankVars, askVars, extVars,
                   http, indexes, stored, trig, films, del>>

\* cleanSearchIndexes: every index of a second listing is dropped; for...of
\* over the undefined of a failed listing throws a TypeError, which nothing
\* up to run() catches
CleanSearchIndexes(ok) ==
    /\ setup.pc = "clean"
    /\ IF listSearchIndexes(ok, indexes).array
       THEN /\ indexes' = indexes \ listSearchIndexes(ok, indexes).names
            /\ setup' = [setup EXCEPT !.pc = "create"]
       ELSE /\ setup' = [setup EXCEPT !.pc = "failed", !.error = "TypeError"]
            /\ UNCHANGED indexes
    /\ UNCHANGED <<rrfVars, configVars, rerankVars, askVars, extVars,
                   http, stored, trig, films, del>>

\* the create methods the index type selects, each testing
\* existingIndexes.some(...) on the list taken before the clean-up; on an
\* undefined existingIndexes the first of them throws a TypeError
CreateIndexes ==
    /\ setup.pc = "create"
    /\ IF setup.existingIndexes.array
       THEN /\ indexes' = indexes \cup CreatedBy(setup.indexType, setup.existingIndexes)
            /\ setup' = [setup EXCEPT !.pc = "final"]
       ELSE /\ setup' = [setup EXCEPT !.pc = "failed", !.error = "TypeError"]
            /\ UNCHANGED indexes
    /\ UNCHANGED <<rrfVars, configVars, rerankVars, askVars, extVars,
                   http, stored, trig, films, del>>

\* the last listing is logged whatever it returned, and run() resolves
ListFinal ==
    /\ setup.pc = "final"
    /\ setup' = [setup EXCEPT !.pc = "done"]
    /\ UNCHANGED <<rrfVars, configVars, rerankVars, askVars, extVars,
                   http, indexes, stored, trig, films, del>>

----------------------------------------------------------------------------
(* Specification of SetupService.run called up to MaxRuns times on a
   collection with any search indexes *)

InitSetup ==
    /\ RRFIdle
    /\ RerankIdle
    /\ AskIdle
    /\ ExtIdle
    /\ http = NoHttp
    /\ indexes \in SUBSET IndexNames
    /\ setup \in [pc : {"ready"}, indexType : IndexTypes,
                  existingIndexes : {[array |-> TRUE, names |-> {}]},
                  runs : {0}, error : {"none"}]
    /\ stored = NoDocument
    /\ trig = NoTrigger
    /\ films = {}
    /\ del = [d \in Deleters |-> NoDelete]

NextSetup ==
    \/ Run
    \/ \E ok \in BOOLEAN : ListExisting(ok)
    \/ \E ok \in BOOLEAN : CleanSearchIndexes(ok)
    \/ CreateIndexes
    \/ ListFinal

SpecSetup == InitSetup /\ [][NextSetup]_vars

----------------------------------------------------------------------------
(* bin/watch.js: the insert trigger that adds the embeddings of a new
   document *)

\* values of an embedding field: missing, null, [], the vector the document
\* was inserted with, and a vector computed by the trigger
Vectors == {NoVector, "null", "empty", "inserted", "computed"}

\* v?.length is truthy
HasLength(v) == v \in {"inserted", "computed"}

\* what srvVoyage.getEmbedding and getImageEmbedding settle to
EmbeddingOutcomes == {"computed", "null", "empty", "throws"}

\* what storeService.readFromUrl settles to
ReadOutcomes == {"bytes", "null", "empty", "throws"}

\* the embedding field after { $set: { embedding: e } }: the whole
\* sub-document is replaced by e, a key e lacks is no longer there
SetEmbedding(doc, e) == [doc EXCEPT !.embedding = e]

\* the text block of insert: skipped when the document has a text
\* embedding; otherwise the description, when there is one, is embedded and
\* a result with elements goes into updatedDoc; a rejection is caught by
\* the try block of insert, which logs and returns
TextBlock(o) ==
    /\ trig.pc = "text"
    /\ IF HasLength(trig.fullDocument.embedding.text) \/ ~trig.fullDocument.description
       THEN trig' = [trig EXCEPT !.pc = "image"]
       ELSE IF o = "throws"
       THEN trig' = [trig EXCEPT !.pc = "caught"]
       ELSE IF HasLength(o)
       THEN trig' = [trig EXCEPT !.pc = "image", !.updatedDoc.text = o]
       ELSE trig' = [trig EXCEPT !.pc = "image"]
    /\ UNCHANGED <<rrfVars, configVars, rerankVars, askVars, extVars,
                   http, indexes, setup, stored, films, del>>

\* the image block of insert: skipped when the document has an image
\* embedding, no cover image or no store; otherwise the image is read and,
\* when it has bytes, embedded, and updatedDoc.embedding.image is assigned
\* whatever getImageEmbedding returned
ImageBlock(r, o) ==
    /\ trig.pc = "image"
    /\ IF \/ HasLength(trig.fullDocument.embedding.image)
          \/ ~trig.fullDocument.coverImage
          \/ ~trig.storeService
       THEN trig' = [trig EXCEPT !.pc = "update"]
       ELSE IF r = "throws" \/ (r = "bytes" /\ o = "throws")
       THEN trig' = [trig EXCEPT !.pc = "caught"]
       ELSE IF r = "bytes"
       THEN trig' = [trig EXCEPT !.pc = "update", !.updatedDoc.image = o]
       ELSE trig' = [trig EXCEPT !.pc = "update"]
    /\ UNCHANGED <<rrfVars, configVars, rerankVars, askVars, extVars,
                   http, indexes, setup, stored, films, del>>

\* the end of insert: nothing is written when neither embedding has
\* elements; otherwise collection.updateOne(documentKey, { $set: updatedDoc })
UpdateOne ==
    /\ trig.pc = "update"
    /\ IF ~HasLength(trig.updatedDoc.text) /\ ~HasLength(trig.updatedDoc.image)
       THEN /\ trig' = [trig EXCEPT !.pc = "skipped"]
            /\ UNCHANGED stored
       ELSE /\ stored' = SetEmbedding(stored, trig.updatedDoc)
            /\ trig' = [trig EXCEPT !.pc = "updated"]
    /\ UNCHANGED <<rrfVars, configVars, rerankVars, askVars, extVars,
                   http, indexes, setup, films, del>>

----------------------------------------------------------------------------
(* Specification of the insert trigger on one inserted document *)

\* the documents that can be inserted: with or without description and
\* cover image, each embedding missing, empty or already there
InsertedDocuments ==
    [description : BOOLEAN, coverImage : BOOLEAN,
     embedding : [text : {NoVector, "empty", "inserted"},
                  image : {NoVector, "empty", "inserted"}]]

InitTrigger ==
    /\ RRFIdle
    /\ RerankIdle
    /\ AskIdle
    /\ ExtIdle
    /\ http = NoHttp
    /\ indexes = {}
    /\ setup = NoSetup
    /\ stored \in InsertedDocuments
    /\ trig \in [pc : {"text"}, fullDocument : {stored}, storeService : BOOLEAN,
                 updatedDoc : {NoEmbeddings}]
    /\ films = {}
    /\ del = [d \in Deleters |-> NoDelete]

NextTrigger ==
    \/ \E o \in EmbeddingOutcomes : TextBlock(o)
    \/ \E r \in ReadOutcomes, o \in EmbeddingOutcomes : ImageBlock(r, o)
    \/ UpdateOne

SpecTrigger == InitTrigger /\ [][NextTrigger]_vars

----------------------------------------------------------------------------
(* FilmService.delete, called concurrently on one collection *)

\* ids that ObjectId.isValid accepts; no film has the id UnknownId
FilmIds == {1, 2, 3}
UnknownId == 2

\* an id ObjectId.isValid rejects
InvalidId == 0

\* the films of the collection when the calls start
InitialFilms == FilmIds \ {UnknownId}

\* delete(id) up to its first await: an invalid id returns null, otherwise
\* findOne is called
Delete(d) ==
    /\ del[d].pc = "called"
    /\ IF del[d].id \notin FilmIds
       THEN del' = [del EXCEPT ![d].pc = "done", ![d].returned = "null"]
       ELSE del' = [del EXCEPT ![d].pc = "findOne"]
    /\ UNCHANGED <<rrfVars, configVars, rerankVars, askVars, extVars,
                   http, indexes, setup, stored, trig, films>>

\* findOne resolves: without a document delete returns null, otherwise
\* deleteOne is called
FindOne(d) ==
    /\ del[d].pc = "findOne"
    /\ IF del[d].id \notin films
       THEN del' = [del EXCEPT ![d].pc = "done", ![d].returned = "null"]
       ELSE del' = [del EXCEPT ![d].pc = "deleteOne", ![d].doc = del[d].id]
    /\ UNCHANGED <<rrfVars, configVars, rerankVars, askVars, extVars,
                   http, indexes, setup, stored, trig, films>>

\* deleteOne resolves and delete returns the document whatever
\* res.deletedCount is
DeleteOneIgnoringCount(d) ==
    /\ del[d].pc = "deleteOne"
    /\ films' = films \ {del[d].id}
    /\ del' = [del EXCEPT ![d].pc = "done",
                          ![d].deletedCount = IF del[d].id \in films THEN 1 ELSE 0,
                          ![d].returned = "doc"]
    /\ UNCHANGED <<rrfVars, configVars, rerankVars, askVars, extVars,
                   http, indexes, setup, stored, trig>>

\* deleteOne resolves: delete returns the document found when
\* res.deletedCount === 1 and null otherwise
DeleteOne(d) ==
    /\ del[d].pc = "deleteOne"
    /\ films' = films \ {del[d].id}
    /\ del' = [del EXCEPT ![d].pc = "done",
                          ![d].deletedCount = IF del[d].id \in films THEN 1 ELSE 0,
                          ![d].returned = IF del[d].id \in films THEN "doc" ELSE "null"]
    /\ UNCHANGED <<rrfVars, configVars, rerankVars, askVars, extVars,
                   http, indexes, setup, stored, trig>>

----------------------------------------------------------------------------
(* Specification of two concurrent calls of FilmService.delete *)

InitDelete ==
    /\ RRFIdle
    /\ RerankIdle
    /\ AskIdle
    /\ ExtIdle
    /\ http = NoHttp
    /\ indexes = {}
    /\ setup = NoSetup
    /\ stored = NoDocument
    /\ trig = NoTrigger
    /\ films = InitialFilms
    /\ del \in [Deleters -> [pc : {"called"}, id : FilmIds \cup {InvalidId}, doc : {0},
                             deletedCount : {0}, returned : {Undefined}]]

NextDelete ==
    \E d \in Deleters :
        \/ Delete(d)
        \/ FindOne(d)
        \/ DeleteOne(d)

SpecDelete == InitDelete /\ [][NextDelete]_vars

----------------------------------------------------------------------------
(* Properties of mergeWithRRF *)

IdsOf(list) == [i \in 1..Len(list) |-> list[i]._id]

\* 1-indexed positions of id in list; position i is rank i - 1
Positions(list, id) == { i \in 1..Len(list) : list[i]._id = id }

Occurs(id) == Positions(listA, id) \cup Positions(listB, id) # {}

MaxOf(a, b) == IF a > b THEN a ELSE b

\* a common denominator of 1/(k+1) .. 1/(k+n)
RECURSIVE CommonDen(_, _)
CommonDen(k, n) == IF n = 0 THEN 1 ELSE Lcm(CommonDen(k, n - 1), k + n)

RECURSIVE SumOfContributions(_, _, _)
SumOfContributions(S, k, den) ==
    IF S = {} THEN 0
    ELSE LET i == CHOOSE j \in S : TRUE
         IN  (den \div (k + i)) + SumOfContributions(S \ {i}, k, den)

\* score = sum over the positions i of id in A and in B of 1/(kConst + i),
\* with i = r + 1
IsFusedScore(score, id) ==
    LET den == CommonDen(kConst, MaxOf(Len(listA), Len(listB)))
    IN  /\ den % score.d = 0
        /\ score.n * (den \div score.d)
             = SumOfContributions(Positions(listA, id), kConst, den)
               + SumOfContributions(Positions(listB, id), kConst, den)

MergedEntries(id) == { i \in 1..Len(merged) : merged[i]._id = id }

\* C1: every id occurring in A or B gets the fused score
\*     sum over its positions r (0-indexed) in A and in B of 1/(k + r + 1);
\*     rank 0 in A only gives 1/(k+1), rank 0 in both gives 2/(k+1).
C1_FusedScore ==
    mpc = "done" =>
        \A id \in Ids :
            Occurs(id) =>
                /\ MergedEntries(id) # {}
                /\ \A i \in MergedEntries(id) :
                    /\ IsFusedScore(merged[i].score, id)
                    /\ (Positions(listA, id) = {1} /\ Positions(listB, id) = {})
                          => merged[i].score = [n |-> 1, d |-> kConst + 1]
                    /\ (Positions(listA, id) = {1} /\ Positions(listB, id) = {1})
                          => merged[i].score = Rat(2, kConst + 1)

C1_Witness ==
    /\ mpc = "done"
    /\ kConst = RRF_K
    /\ \E id \in Ids :
        /\ Positions(listA, id) = {1}
        /\ Positions(listB, id) = {2}
        /\ \E i \in MergedEntries(id) : merged[i].score = RatAdd(Rat(1, 61), Rat(1, 62))

\* the first occurrence of id, A scanned before B
FirstOccurrence(id) ==
    IF Positions(listA, id) # {}
    THEN listA[CHOOSE i \in Positions(listA, id) : \A j \in Positions(listA, id) : i <= j]
    ELSE listB[CHOOSE i \in Positions(listB, id) : \A j \in Positions(listB, id) : i <= j]

\* C2: the output has exactly one entry per distinct id of A and B, with the
\*     title/description/coverImage of the first occurrence (A before B) and
\*     the fused value as score; A=[1,2], B=[2,3] gives 3 documents, id 2 first.
C2_Dedup ==
    mpc = "done" =>
        /\ \A i \in 1..Len(merged) : merged[i]._id \in Ids /\ Occurs(merged[i]._id)
        /\ \A id \in Ids : Occurs(id) => Cardinality(MergedEntries(id)) = 1
        /\ \A i \in 1..Len(merged) :
            LET first == FirstOccurrence(merged[i]._id)
            IN  /\ merged[i].title = first.title
                /\ merged[i].description = first.description
                /\ merged[i].coverImage = first.coverImage
                /\ IsFusedScore(merged[i].score, merged[i]._id)
        /\ (IdsOf(listA) = <<1, 2>> /\ IdsOf(listB) = <<2, 3>> /\ kConst = RRF_K)
              => (Len(merged) = 3 /\ merged[1]._id = 2)

C2_Witness ==
    /\ mpc = "done"
    /\ IdsOf(listA) = <<1, 2>>
    /\ IdsOf(listB) = <<2, 3>>
    /\ kConst = RRF_K
    /\ listA[2].title # listB[1].title
    /\ merged[1].title = listA[2].title
    /\ merged[1].score # listA[2].score

\* where id is first encountered in the scan of A then B
EncounterIndex(id) ==
    IF Positions(listA, id) # {}
    THEN CHOOSE i \in Positions(listA, id) : \A j \in Positions(listA, id) : i <= j
    ELSE Len(listA)
         + (CHOOSE i \in Positions(listB, id) : \A j \in Positions(listB, id) : i <= j)

\* C3: the output is in descending order of fused score and documents of
\*     equal score are in first-encounter order (A in order, then B); the
\*     order is thereby a function of the inputs.
C3_SortedStable ==
    mpc = "done" =>
        \A i, j \in 1..Len(merged) :
            i < j =>
                /\ ~RatLess(merged[i].score, merged[j].score)
                /\ merged[i].score = merged[j].score
                      => EncounterIndex(merged[i]._id) < EncounterIndex(merged[j]._id)

C3_Witness ==
    /\ mpc = "done"
    /\ Len(merged) >= 3
    /\ merged[1].score # merged[2].score
    /\ merged[2].score = merged[3].score
    /\ merged[2]._id > merged[3]._id

----------------------------------------------------------------------------
(* Properties of applyRerank *)

\* a rerank provider has answered the call with a result list
GatewayAnswered == rpc = "done" /\ Len(voyageCalls) + Len(jinaCalls) > 0

\* C4: when the selected rerank gateway returns an empty result list for a
\*     non-empty candidate list, applyRerank returns the candidate list
\*     unchanged: same length, same order, same scores.
C4_EmptyResultKeepsCandidates ==
    (GatewayAnswered /\ Len(results) = 0) =>
        /\ Len(rq.chunks) > 0
        /\ Len(reranked) = Len(rq.chunks)
        /\ \A i \in 1..Len(rq.chunks) : reranked[i] = rq.chunks[i]

C4_Witness ==
    /\ GatewayAnswered
    /\ Len(jinaCalls) = 1
    /\ Len(results) = 0
    /\ Len(rq.chunks) = 3
    /\ reranked = rq.chunks

\* C5: for a non-empty result list r_1..r_m the output has m elements and
\*     its j-th element is candidate c_(r_j.index) with the score replaced
\*     by r_j.relevance_score and every other field unchanged; results
\*     [{2, 0.9}, {0, 0.5}] on 3 candidates give [c_2 with 0.9, c_0 with 0.5].
C5_RerankedByIndex ==
    (GatewayAnswered /\ Len(results) > 0) =>
        /\ Len(reranked) = Len(results)
        /\ \A j \in 1..Len(results) :
            results[j].index < Len(rq.chunks) =>
                LET c == rq.chunks[results[j].index + 1]
                IN  /\ DOMAIN reranked[j] = DOMAIN c
                    /\ reranked[j]._id = c._id
                    /\ reranked[j].title = c.title
                    /\ reranked[j].description = c.description
                    /\ reranked[j].coverImage = c.coverImage
                    /\ reranked[j].score = results[j].relevance_score
        /\ (/\ Len(rq.chunks) = 3
            /\ results = <<[index |-> 2, relevance_score |-> Rat(9, 10)],
                           [index |-> 0, relevance_score |-> Rat(1, 2)]>>)
              => reranked = <<[rq.chunks[3] EXCEPT !.score = Rat(9, 10)],
                              [rq.chunks[1] EXCEPT !.score = Rat(1, 2)]>>

C5_Witness ==
    /\ GatewayAnswered
    /\ Len(voyageCalls) = 1
    /\ Len(rq.chunks) = 3
    /\ results = <<[index |-> 2, relevance_score |-> Rat(9, 10)],
                   [index |-> 0, relevance_score |-> Rat(1, 2)]>>
    /\ Len(reranked) = 2
    /\ reranked[1]._id = rq.chunks[3]._id
    /\ reranked[2]._id = rq.chunks[1]._id

\* the multimodal reranker is enabled and configured
MultimodalOn == useRerankImage /\ srvJinaRerank

\* the image row of the decision table with the multimodal reranker off
\* and an explicit text query
ImageFallbackRow ==
    /\ rq.queryType = "image"
    /\ Len(rq.chunks) > 0
    /\ ~MultimodalOn
    /\ rq.hasUserQuestion

\* applyRerank has called the text cross-encoder once, with the caller's
\* query and one document string per candidate
CalledVoyageOnce ==
    /\ Len(voyageCalls) = 1
    /\ voyageCalls[1].query = rq.query
    /\ Len(voyageCalls[1].documents) = Len(rq.chunks)
    /\ \A i \in 1..Len(rq.chunks) : voyageCalls[1].documents[i] # <<>>

TextRow ==
    /\ rq.queryType \in {"text", "hybrid"}
    /\ useRerank
    /\ Len(rq.chunks) > 0

ImageRow ==
    /\ rq.queryType = "image"
    /\ MultimodalOn
    /\ Len(rq.chunks) > 0

\* C7: for queryType text or hybrid with rerank-by-text enabled and at least
\*     one candidate, applyRerank calls the text cross-encoder exactly once,
\*     with the query and one document string per candidate, and never the
\*     multimodal reranker or an image fetch, whatever the rerank-by-image
\*     setting; for queryType image with the multimodal reranker enabled and
\*     configured it calls the multimodal reranker and never the text one.
C7_RerankerSelection ==
    /\ TextRow =>
        /\ jinaCalls = <<>>
        /\ fetchCalls = <<>>
        /\ Len(voyageCalls) <= 1
        /\ rpc \notin {"idle", "apply"} => CalledVoyageOnce
    /\ ImageRow =>
        /\ voyageCalls = <<>>
        /\ Len(jinaCalls) <= 1
        /\ rpc \in {"jina", "done", "failed"} =>
            /\ Len(jinaCalls) = 1
            /\ jinaCalls[1].query = rq.query
            /\ Len(jinaCalls[1].documents) = Len(rq.chunks)

C7_Witness ==
    /\ TextRow
    /\ rq.queryType = "hybrid"
    /\ MultimodalOn
    /\ srvStore
    /\ rpc = "done"
    /\ Len(rq.chunks) = 3
    /\ CalledVoyageOnce
    /\ fetchCalls = <<>>

PassThroughRow ==
    \/ rq.queryType \in {"text", "hybrid"} /\ ~useRerank
    \/ rq.queryType = "image" /\ ~MultimodalOn /\ ~rq.hasUserQuestion

\* C8: in the pass-through rows of the decision table applyRerank returns
\*     the candidate list unchanged in content and order and makes no
\*     rerank-gateway call and no image fetch.
C8_PassThrough ==
    (rpc # "idle" /\ PassThroughRow) =>
        /\ voyageCalls = <<>>
        /\ jinaCalls = <<>>
        /\ fetchCalls = <<>>
        /\ rpc \in {"apply", "done"}
        /\ rpc = "done" => reranked = rq.chunks

C8_Witness ==
    /\ rq.queryType = "image"
    /\ ~MultimodalOn
    /\ ~rq.hasUserQuestion
    /\ useRerank
    /\ srvStore
    /\ rpc = "done"
    /\ Len(rq.chunks) = 3
    /\ reranked = rq.chunks
    /\ voyageCalls = <<>>

----------------------------------------------------------------------------
(* Properties of askHybrid *)

\* askHybrid has called applyRerank
HandedToRerank == apc # "idle" /\ rpc # "idle"

\* C9: the candidate list askHybrid hands to rerank is the RRF fusion of the
\*     vector and the lexical results cut to its first k elements when the
\*     lexical search returned at least one result, and the vector results
\*     otherwise; vector [1,2], lexical [3,1], k=2 give 2 elements, id 1 first.
C9_HybridCandidates ==
    HandedToRerank =>
        LET fused == mergeWithRRF(vectorDocs, fullTextDocs, RRF_K)
        IN  /\ Len(fullTextDocs) >= 1 =>
                /\ Len(rq.chunks) = Min(askK, Len(fused))
                /\ \A i \in 1..Len(rq.chunks) : rq.chunks[i] = fused[i]
            /\ Len(fullTextDocs) = 0 => rq.chunks = vectorDocs
            /\ (/\ IdsOf(vectorDocs) = <<1, 2>>
                /\ IdsOf(fullTextDocs) = <<3, 1>>
                /\ askK = 2)
                  => (Len(rq.chunks) = 2 /\ rq.chunks[1]._id = 1)

C9_Witness ==
    /\ HandedToRerank
    /\ IdsOf(vectorDocs) = <<1, 2>>
    /\ IdsOf(fullTextDocs) = <<3, 1>>
    /\ askK = 2
    /\ IdsOf(rq.chunks) = <<1, 3>>

\* retrieveByFullText resolved to [] for want of an index, for a blank
\* question or because the search threw
FullTextDegraded == ft \in {"skipped", "threw"}

\* C10: retrieveByFullText never fails: without a lexical index, with a blank
\*      query text, or when the search throws, it resolves to an empty list,
\*      and the hybrid request goes on with the vector-only results.
C10_FullTextDegrades ==
    /\ askError # "fulltext"
    /\ (apc \notin {"idle", "call"} /\ FullTextSkipped) => ft = "skipped"
    /\ FullTextDegraded => fullTextDocs = <<>>
    /\ (FullTextDegraded /\ apc = "join" /\ embedding = "ok") => ENABLED VectorSearch
    /\ (FullTextDegraded /\ HandedToRerank) => rq.chunks = vectorDocs
    /\ (FullTextDegraded /\ apc = "done") =>
            Len(response.contextChunks) = Len(reranked)

C10_Witness ==
    /\ ft = "threw"
    /\ apc = "done"
    /\ Len(vectorDocs) = 2
    /\ rq.chunks = vectorDocs
    /\ Len(response.contextChunks) = 2

----------------------------------------------------------------------------
(* Failures of the rerank provider call *)

\* the rerank gateway call of the request has ended on a response that is
\* not OK, on a network error or on a body that does not parse
RerankProviderFailed ==
    /\ gw["a"].stage = "done"
    /\ gw["a"].responses # <<>>
    /\ gw["a"].responses[Len(gw["a"].responses)].kind \in {"status", "network", "unparsable"}

\* C11: when the rerank provider call fails in any way (non-OK response,
\* network error, unparsable body), applyRerank does not reject, it yields
\* the unchanged candidate list, and the ask request does not fail on it
C11_RerankFailureTolerated ==
    RerankProviderFailed =>
        /\ rpc # "failed"
        /\ askError # "rerank"
        /\ rpc = "done" => reranked = rq.chunks

----------------------------------------------------------------------------
(* Rate limits on the gateway calls *)

\* the i-th response the call g received is a 429
RateLimitedAt(g, i) ==
    /\ Len(g.responses) >= i
    /\ g.responses[i].kind = "status"
    /\ g.responses[i].status = RateLimited

\* C12: a gateway call (text embedding, image embedding, text rerank,
\* multimodal rerank) whose first response is a 429 waits the cooldown and
\* then sends exactly one more request with the same inputs, and an OK answer
\* to it becomes the result of the call
C12_RetryAfterRateLimit ==
    \A c \in Calls :
        LET g == gw[c]
        IN  RateLimitedAt(g, 1) =>
                /\ g.stage = "cooldown" => Len(g.requests) = 1
                /\ g.stage # "cooldown" =>
                        /\ Len(g.requests) = 2
                        /\ g.requests[2].body = g.requests[1].body
                        /\ g.requests[2].after = WaitMs
                /\ g.stage = "done" /\ g.responses[2].kind = "ok" =>
                        g.result = OnOk(g.method, g.input, g.responses[2].body)


SecondRateLimitResult(m) ==
    CASE m = "getEmbedding" -> Threw
      [] m = "getImageEmbedding" -> Returned(Null)
      [] OTHER -> Returned(RerankResults(<<>>))

----------------------------------------------------------------------------
(* Properties of askImage *)

\* C14: in askImage, when getImageEmbedding yields null or an empty vector
\* the request returns the fixed answer with no context chunks, and no
\* vector search, no rerank call and no generation call is made
C14_ImageShortCircuit ==
    entry = "image" /\ NoEmbedding =>
        /\ apc \in {"embed", "done"}
        /\ apc = "done" =>
                response = [answer |-> CouldNotEmbed, contextChunks |-> <<>>]
        /\ vectorDocs = <<>>
        /\ rpc = "idle"
        /\ voyageCalls = <<>>
        /\ jinaCalls = <<>>
        /\ gw["a"].stage = "idle"
        /\ llmCalls = <<>>

\* an askImage request whose embedding was [] has returned
C14_Witness ==
    /\ entry = "image"
    /\ embedding = "empty"
    /\ apc = "done"
    /\ response.answer = CouldNotEmbed

----------------------------------------------------------------------------
(* Properties of the embedding gateway *)

\* the last response the call g received is OK and its first data entry
\* holds an array embedding
AnsweredArrayEmbedding(g) ==
    /\ g.responses # <<>>
    /\ LET last == g.responses[Len(g.responses)]
       IN  /\ last.kind = "ok"
           /\ last.body.hasData
           /\ Len(last.body.data) > 0
           /\ IsArray(last.body.data[1].embedding)

\* C15: getImageEmbedding never throws; it returns the embedding when the
\* provider answers OK with an array embedding, and null in every other case
\* (non-buffer input, non-OK response, network error, no array embedding,
\* rate limit on the request and on the retry)
C15_ImageEmbeddingNeverThrows ==
    \A c \in Calls :
        LET g == gw[c]
        IN  g.method = "getImageEmbedding" =>
                /\ g.result # Threw
                /\ g.stage = "done" =>
                        g.result =
                            IF AnsweredArrayEmbedding(g)
                            THEN Returned(g.responses[Len(g.responses)].body.data[1].embedding)
                            ELSE Returned(Null)

\* one getImageEmbedding call has returned null after two 429s, another one
\* after a network error, and neither has thrown
C15_Witness ==
    /\ gw["a"].method = "getImageEmbedding"
    /\ RateLimitedAt(gw["a"], 2)
    /\ gw["a"].result = Returned(Null)
    /\ gw["b"].method = "getImageEmbedding"
    /\ gw["b"].responses = <<[kind |-> "network"]>>
    /\ gw["b"].result = Returned(Null)


\* the last response the call g received is OK and carries data
AnsweredData(g) ==
    /\ g.responses # <<>>
    /\ g.responses[Len(g.responses)].kind = "ok"
    /\ g.responses[Len(g.responses)].body.hasData

\* C16: getEmbedding on an ordered list of n texts sends all n texts, in
\* order, in one provider request (a second one only to retry a 429), and
\* when the provider answers one vector per input in input order it returns
\* the list of n vectors whose i-th element is the vector of the i-th input;
\* on a single string it returns that string's vector, not a list
C16_BatchEmbedding ==
    \A c \in Calls :
        LET g == gw[c]
            texts == g.input.texts
        IN  g.method = "getEmbedding" =>
                /\ \A i \in 1..Len(g.requests) : g.requests[i].body.input = texts
                /\ \/ Len(g.requests) = 1
                   \/ Len(g.requests) = 2 /\ RateLimitedAt(g, 1)
                /\ g.stage = "done" /\ AnsweredData(g) =>
                        IF g.input.isArray
                        THEN /\ g.result.kind = "returned"
                             /\ g.result.value.type = "list"
                             /\ Len(g.result.value.items) = Len(texts)
                             /\ \A i \in 1..Len(texts) :
                                    g.result.value.items[i] = Vec(texts[i])
                        ELSE g.result = Returned(Vec(texts[1]))

\* a call on three texts has returned their three vectors after one request,
\* and a call on a single string has returned its vector
C16_Witness ==
    /\ gw["a"].method = "getEmbedding"
    /\ gw["a"].input.texts = <<"a", "b", "c">>
    /\ Len(gw["a"].requests) = 1
    /\ gw["a"].result = Returned(List(<<Vec("a"), Vec("b"), Vec("c")>>))
    /\ gw["b"].method = "getEmbedding"
    /\ ~gw["b"].input.isArray
    /\ gw["b"].result = Returned(Vec("b"))

----------------------------------------------------------------------------
(* Properties of rerankImageWithJina *)

\* every readFromUrl of the call has settled
AllFetchesSettled == \A i \in 1..Len(fetch) : fetch[i].state # "pending"

\* the document the multimodal reranker is to receive for candidate i: the
\* image when its fetch returned bytes, the title and description otherwise
ExpectedDocument(i) ==
    IF fetch[i].outcome = "bytes"
    THEN [image |-> rq.chunks[i].coverImage]
    ELSE [text |-> DocText(rq.chunks[i])]

\* C17: in the multimodal rerank path, whichever cover-image fetches fail
\* (throw, return null, return empty bytes) and in whatever order they
\* settle, the reranker is called once all have settled, with one document
\* per candidate in candidate order: the image document of candidate i when
\* its fetch succeeded, its text document otherwise; a failed fetch does not
\* abort the rerank
C17_JinaDocuments ==
    /\ rpc = "fetch" /\ AllFetchesSettled => ENABLED CallJina
    /\ rpc = "failed" /\ fetch # <<>> => jinaCalls # <<>>
    /\ jinaCalls # <<>> =>
            LET documents == jinaCalls[1].documents
            IN  /\ Len(jinaCalls) = 1
                /\ Len(documents) = Len(rq.chunks)
                /\ \A i \in 1..Len(documents) : documents[i] = ExpectedDocument(i)

\* the reranker was called for three candidates: the fetch of the first
\* threw, the second has no cover image, the fetch of the third succeeded
C17_Witness ==
    /\ jinaCalls # <<>>
    /\ Len(fetch) = 3
    /\ fetch[1].outcome = "throws"
    /\ fetch[2].outcome = "unfetched"
    /\ fetch[3].outcome = "bytes"
    /\ jinaCalls[1].documents[3] = [image |-> rq.chunks[3].coverImage]

----------------------------------------------------------------------------
(* Order of the stages of a request *)

\* retrieveRelevantChunks has been called
VectorSearchStarted ==
    \/ apc \in {"vector", "retrieve", "rerank", "llm"}
    \/ apc = "done" /\ llmCalls # <<>>
    \/ apc = "failed" /\ askError \in {"vector", "rerank", "llm"}

\* retrieveRelevantChunks has resolved
VectorSearchCompleted ==
    \/ apc \in {"rerank", "llm"}
    \/ apc = "done" /\ llmCalls # <<>>
    \/ apc = "failed" /\ askError \in {"rerank", "llm"}

\* applyRerank has been called
RerankStarted == rpc # "idle"

\* the candidates of the request once its retrieval has completed
Retrieved ==
    IF entry = "hybrid" THEN HybridChunks(vectorDocs, fullTextDocs, askK)
    ELSE vectorDocs

\* C18: within a request the stages run in a fixed order under every
\* interleaving: in askHybrid the vector search starts only after both the
\* embedding call and the lexical search have completed; the candidates are
\* fused only after the vector search has completed and rerank starts only
\* on the fused candidates; in askText and askImage retrieval starts after
\* the embedding and completes before rerank; the generation call starts only
\* after rerank has completed, on its result
C18_StageOrder ==
    /\ VectorSearchStarted =>
            /\ embedding = "ok"
            /\ entry = "hybrid" => ft \in {"skipped", "returned", "threw"}
    /\ RerankStarted =>
            /\ VectorSearchCompleted
            /\ rq.chunks = Retrieved
    /\ gw["a"].stage # "idle" => RerankStarted
    /\ llmCalls # <<>> =>
            /\ rpc = "done"
            /\ Len(llmCalls) = 1
            /\ llmCalls[1].chunks = reranked

\* an askHybrid request has gone through lexical search, vector search,
\* fusion, a rerank call and the generation call
C18_Witness ==
    /\ entry = "hybrid"
    /\ ft = "returned"
    /\ fullTextDocs # <<>>
    /\ vectorDocs # <<>>
    /\ voyageCalls # <<>>
    /\ llmCalls # <<>>
    /\ apc = "done"

----------------------------------------------------------------------------
(* Independence of requests *)

\* whether the model is to be invoked for the request r, by its own call
\* parameter and the configuration
OwnCall(r) == IF req[r].call # Undefined THEN req[r].call = "true" ELSE envCall

\* C19: requests share no mutable state: whether the generation model is
\* invoked for a request depends only on that request's own call parameter
\* and the configuration, never on the parameters of another request
C19_RequestsIndependent ==
    \A r \in Reqs : req[r].pc = "done" => req[r].generated = OwnCall(r)

----------------------------------------------------------------------------
(* Locality of the retry state *)

\* C20: the retry state is local to each gateway call: when two concurrent
\* gateway calls are both rate-limited on their first request, each waits,
\* can always go on to its retry whatever the other call does, and sends its
\* own single retry after the cooldown
C20_RetriesLocal ==
    RateLimitedAt(gw["a"], 1) /\ RateLimitedAt(gw["b"], 1) =>
        \A c \in Calls :
            LET g == gw[c]
            IN  /\ g.stage = "cooldown" =>
                        /\ Len(g.requests) = 1
                        /\ ENABLED CooldownElapses(c)
                /\ g.stage # "cooldown" =>
                        /\ g.retried
                        /\ Len(g.requests) = 2
                        /\ g.requests[2].after = WaitMs

----------------------------------------------------------------------------
(* Properties of the handlers of the ask routes *)

\* no embedding, search, rerank or generation call has been made
NoProviderCall ==
    /\ apc = "idle"
    /\ embedding = "idle"
    /\ ft = "idle"
    /\ rpc = "idle"
    /\ voyageCalls = <<>>
    /\ jinaCalls = <<>>
    /\ gw["a"] = NotCalled
    /\ llmCalls = <<>>

\* the request has been answered 400 and nothing was called for it
RejectedBeforeAnyCall ==
    /\ http.pc = "answered"
    /\ http.status = 400
    /\ NoProviderCall

\* the question of the request body is absent or has no character other
\* than spaces
NoQuestionText(q) == ~q.given \/ \A i \in 1..Len(q.text) : q.text[i] = " "

\* req.query.k parses to a number that is zero or negative
NonPositiveK(s) == ~parseInt(s).nan /\ parseInt(s).n <= 0

C22_MandatoryStepFailureIsHard ==
    /\ askError = "vector" =>
        /\ rpc = "idle"
        /\ voyageCalls = <<>>
        /\ jinaCalls = <<>>
        /\ gw["a"] = NotCalled
        /\ llmCalls = <<>>
    /\ askError \in {"vector", "llm"} =>
        /\ apc = "failed"
        /\ response = NoResponse
        /\ http.body = NoResponse
        /\ http.status \in {0, 500}
        /\ http.pc = "answered" => http.status = 500

\* the vector search of a text request has failed and the handler has
\* answered 500
C22_Witness ==
    /\ entry = "text"
    /\ askError = "vector"
    /\ http.pc = "answered"
    /\ http.status = 500

\* the fields of a contextChunks entry
PublicFields == {"title", "description", "coverImage", "score"}

\* C23: on the three routes the contextChunks of a success response have
\* the length and the order of the candidate list handed to srvLLM.invoke,
\* and each entry has the fields title, description, coverImage and score
\* of its candidate and no other field: no _id and no embedding
C23_ContextChunksShape ==
    http.status = 200 /\ llmCalls # <<>> =>
        LET chunks == llmCalls[Len(llmCalls)].chunks
            cc == http.body.contextChunks
        IN  /\ Len(cc) = Len(chunks)
            /\ \A i \in 1..Len(cc) :
                /\ DOMAIN cc[i] = PublicFields
                /\ \A f \in PublicFields : cc[i][f] = Field(chunks[i], f)

\* a hybrid request has been answered with two context chunks built from
\* candidates that carry an _id
C23_Witness ==
    /\ entry = "hybrid"
    /\ http.status = 200
    /\ Len(llmCalls) = 1
    /\ Len(http.body.contextChunks) = 2
    /\ \A i \in 1..2 : "_id" \in DOMAIN llmCalls[1].chunks[i]

----------------------------------------------------------------------------
(* Properties of fusion and rerank on their arguments *)

\* C24: fusion and rerank do not mutate their inputs: no step of
\* mergeWithRRF changes an element, a field value or the order of listA or
\* listB, and no step of applyRerank changes its query, its candidate list
\* or a field (score included) of a candidate
C24_InputsNotMutated ==
    [][/\ mpc # "idle" => listA' = listA /\ listB' = listB
       /\ rpc # "idle" => rq' = rq]_vars

\* a document found by both searches has been fused, and the fused list has
\* been reranked to scores other than the fused ones
C24_Witness ==
    /\ mpc = "done"
    /\ rpc = "done"
    /\ Len(listA) = 2
    /\ \E i \in 1..Len(listB) : listB[i]._id = listA[1]._id
    /\ Len(results) = 2
    /\ \A j \in 1..2 : results[j].index + 1 \in 1..Len(rq.chunks)
    /\ \E j \in 1..2 : reranked[j].score # rq.chunks[results[j].index + 1].score

----------------------------------------------------------------------------
(* Properties of applyRerank on provider results of any shape *)

\* the fields that identify a candidate
IdentityFields == {"_id", "title", "description", "coverImage"}

\* C25: for every result list a rerank gateway can return, indexes out of
\* range or repeated included, every candidate in the output of applyRerank
\* has the _id, title, description and coverImage of one input candidate:
\* rerank only replaces the score
C25_IdentityPreserved ==
    rpc = "done" =>
        \A j \in 1..Len(reranked) :
            \E i \in 1..Len(rq.chunks) :
                /\ DOMAIN reranked[j] = DOMAIN rq.chunks[i]
                /\ \A f \in IdentityFields : reranked[j][f] = rq.chunks[i][f]

----------------------------------------------------------------------------
(* Properties of SetupService *)

\* C26: when run() has completed without error with the default index
\* type, the collection has the text vector index and the image vector
\* index, whatever search indexes it had before, a second run after a
\* successful first one included
C26_BothIndexesAfterRun ==
    setup.pc = "done" /\ setup.indexType = "both" =>
        {TextIndex, ImageIndex} \subseteq indexes

\* C27: when the listing of the search indexes fails, listSearchIndexes
\* returns an empty list, not undefined, so that cleanSearchIndexes drops
\* nothing and ensureVectorSearchIndex goes on to create the indexes
\* without a throw caused by the failed listing
C27_FailedListingIsEmptyList ==
    /\ setup.existingIndexes.array
    /\ setup.error # "TypeError"

----------------------------------------------------------------------------
(* Properties of the insert trigger *)

\* C28: the insert trigger only adds embeddings: whatever the embedding
\* calls return, a modality whose vector was present and non-empty on the
\* inserted document holds that vector after the trigger's update, and the
\* trigger never stores a null or empty value for a modality it failed to
\* embed
C28_TriggerOnlyAddsEmbeddings ==
    \A m \in {"text", "image"} :
        /\ HasLength(trig.fullDocument.embedding[m]) =>
                stored.embedding[m] = trig.fullDocument.embedding[m]
        /\ stored.embedding[m] \in {"null", "empty"} =>
                stored.embedding[m] = trig.fullDocument.embedding[m]

----------------------------------------------------------------------------
(* Properties of FilmService.delete *)

\* the calls that have returned the deleted document
ReturnedDocument == { d \in Deleters : del[d].returned = "doc" }

\* C29: in every interleaving of two delete(id) calls on the same existing
\* film, once both have returned the film is gone, it was removed by one
\* deleteOne only, one call has returned the document and the other null;
\* a delete of an invalid or unknown id returns null and removes nothing;
\* no film is removed but by a call that names it
C29_DeleteExactlyOnce ==
    /\ \A d, e \in Deleters :
        /\ d # e
        /\ del[d].id = del[e].id
        /\ del[d].id \in InitialFilms
        /\ del[d].pc = "done"
        /\ del[e].pc = "done"
        => /\ del[d].id \notin films
           /\ del[d].deletedCount + del[e].deletedCount = 1
           /\ Cardinality(ReturnedDocument) = 1
           /\ \A r \in ReturnedDocument : del[r].doc = del[r].id /\ del[r].deletedCount = 1
           /\ \A r \in Deleters \ ReturnedDocument : del[r].returned = "null"
    /\ \A d \in Deleters :
        del[d].pc = "done" /\ del[d].id \notin InitialFilms =>
            del[d].returned = "null" /\ del[d].deletedCount = 0
    /\ films = InitialFilms \ { del[d].id : d \in { e \in Deleters : del[e].deletedCount = 1 } }

\* both calls found the film before either removed it; one has returned
\* the document and the other null
C29_Witness ==
    /\ \A d \in Deleters : del[d].pc = "done" /\ del[d].id = 1 /\ del[d].doc = 1
    /\ del["d1"].returned = "doc"
    /\ del["d2"].returned = "null"
    /\ 1 \notin films

----------------------------------------------------------------------------
(* Properties of the image route on its question *)

\* C30: in an image request without a question, or with an empty or blank
\* one, the default question is the query of the rerank and of the
\* generation call and the request counts as having no explicit text query;
\* neither the rerank gateway nor the generation model is invoked with an
\* empty query
C30_DefaultImageQuestion ==
    entry = "image" /\ NoQuestionText(http.question) =>
        /\ rpc # "idle" => rq.query = DefaultImageQuestion /\ ~rq.hasUserQuestion
        /\ \A i \in 1..Len(voyageCalls) : voyageCalls[i].query = DefaultImageQuestion
        /\ \A i \in 1..Len(jinaCalls) : jinaCalls[i].query = DefaultImageQuestion
        /\ \A i \in 1..Len(llmCalls) : llmCalls[i].question = DefaultImageQuestion

====
